---- MODULE Spec2Model ----
(***************************************************************************)
(* A model of the Flockwave server application object                      *)
(* (flockwave/server/app.py): the dispatcher that forwards CMD-REQ,        *)
(* UAV-LAND and UAV-TAKEOFF requests to the UAV drivers, the handlers of   *)
(* the command execution manager's "finished" and "expired" signals, the   *)
(* CMD-DEL handler and the DEV-SUB / DEV-UNSUB handlers.                   *)
(*                                                                         *)
(* The command execution manager, the response class of the message hub    *)
(* and the device tree subscription manager are collaborators whose code   *)
(* is not part of src/; they are modelled from the specification.          *)
(***************************************************************************)
EXTENDS Integers, Sequences, FiniteSets, Bags, TLC

\* Longest list of ids or paths in one request.
MaxIds == 2
\* Number of receipts the command execution manager hands out in a run.
MaxReceipts == 2
\* Largest subscription count of one (client, path) pair.
MaxCount == 2
\* The most requests for a UAV-INF notification between two pauses.
MaxRequests == 3

UavIds == {"v1", "v2", "v3"}
DriverIds == {"d1", "d2"}
ClientIds == {"c1", "c2"}

VARIABLES
    uav_registry,   \* UAVRegistry: registered UAV id -> owning driver
    status,         \* CommandExecutionStatus objects ever created, by id
    registered,     \* ids the command execution manager resolves (find_by_id)
    next_receipt,   \* number of the next receipt id to hand out
    sent,           \* bag of the CMD-RESP and CMD-TIMEOUT messages sent so far
    outbox,         \* bag of the messages sent by the last handler
    batch,          \* the statuses of the last "expired" signal
    request,        \* the last message handled, with its sender
    response,       \* the response object built for it
    raised,         \* the exception that left the handler, "none" if it returned
    calls,          \* driver capability invocations of the last dispatch
    behaviour,      \* what each driver did in the last dispatch
    device_tree,    \* DeviceTree: the paths of the nodes of the tree
    subscriptions,  \* client id -> bag of the paths the client is subscribed to
    window,         \* UAV-INF requests and notifications since the last pause
    invoked,        \* the handlers the hub invoked for the last message
    clock_registry, \* ClockRegistry: the ids of the clocks
    connection_registry,  \* ConnectionRegistry: the ids of the connections
    proposed_index_pages, \* _proposed_index_pages: a heap of (priority, route)
    fix,            \* a GPSFix object: type and num_satellites
    preflight,      \* a PreflightCheckInfo object: items, result, _in_progress
    tasks,          \* the simulate_uav task of each virtual UAV
    object_registry \* ObjectRegistry: the ids of the objects in use

vars == <<uav_registry, status, registered, next_receipt, sent, outbox, batch,
          request, response, raised, calls, behaviour, device_tree,
          subscriptions, window, invoked, clock_registry, connection_registry,
          proposed_index_pages, fix, preflight, tasks, object_registry>>

cmdVars == <<status, registered, next_receipt>>
hubVars == <<sent, outbox, batch>>
subVars == <<device_tree, subscriptions>>
rateVars == <<window>>
logVars == <<request, response, raised, calls, behaviour>>
serverVars == <<uav_registry, cmdVars, hubVars, subVars, rateVars>>
queryVars == <<invoked, clock_registry, connection_registry>>
indexVars == <<proposed_index_pages>>
modelVars == <<fix, preflight>>
simVars == <<tasks, object_registry>>
extVars == <<queryVars, indexVars, modelVars, simVars>>

----------------------------------------------------------------------------
(* Helpers for Python dicts, lists and sets                                *)

EmptyMap == [k \in {} |-> k]

Put(map, key, value) ==
    [k \in DOMAIN map \cup {key} |-> IF k = key THEN value ELSE map[k]]

Pop(map, key) == [k \in DOMAIN map \ {key} |-> map[k]]

Range(seq) == {seq[i] : i \in DOMAIN seq}

SeqsUpTo(S, n) == UNION {[1..k -> S] : k \in 0..n}

\* The orders in which the keys of a dict can be iterated.
Orders(S) ==
    {o \in [1..Cardinality(S) -> S] : \A i, j \in DOMAIN o : o[i] = o[j] => i = j}

\* The distinct elements of a list, in the order of their first occurrence:
\* the keys of a dict filled from the list.
RECURSIVE Distinct(_)
Distinct(seq) ==
    IF seq = <<>> THEN <<>>
    ELSE LET rest == Distinct(SubSeq(seq, 1, Len(seq) - 1))
             last == seq[Len(seq)]
         IN IF last \in Range(rest) THEN rest ELSE Append(rest, last)

----------------------------------------------------------------------------
(* Messages and responses (message hub)                                    *)

NoRequest == [body |-> [type |-> "NONE"], sender |-> "none"]

\* MessageHub.create_response_or_notification(body, in_response_to)
create_response_or_notification(body, in_response_to) ==
    [body |-> body, in_response_to |-> in_response_to,
     success |-> EmptyBag, failure |-> EmptyMap, receipt |-> EmptyMap]

NoResponse == create_response_or_notification(EmptyMap, "none")

\* FlockwaveResponse.add_success
add_success(resp, id) ==
    [resp EXCEPT !.success = @ (+) SetToBag({id})]

\* FlockwaveResponse.add_failure
add_failure(resp, id, reason) ==
    [resp EXCEPT !.failure = Put(@, id, reason)]

\* FlockwaveResponse.add_receipt
add_receipt(resp, id, receipt_id) ==
    [resp EXCEPT !.receipt = Put(@, id, receipt_id)]

----------------------------------------------------------------------------
(* Registries                                                              *)

\* Registry.find_by_id raises KeyError for an id it does not hold;
\* _find_in_registry turns that into a failure of the response.
\* A lookup that records nothing for an entry it does not find.
find_in_registry_silently(registry_ids, entry_id, resp, failure_reason) ==
    [found |-> entry_id \in registry_ids, response |-> resp]

find_in_registry(registry_ids, entry_id, resp, failure_reason) ==
    IF entry_id \in registry_ids
    THEN [found |-> TRUE, response |-> resp]
    ELSE [found |-> FALSE,
          response |-> add_failure(resp, entry_id, failure_reason)]

find_uav_by_id(registry, uav_id, resp) ==
    find_in_registry(DOMAIN registry, uav_id, resp, "No such UAV")

\* A lookup of a receipt that gives the failure reason of another registry.
find_command_receipt_by_id_as_uav(manager_ids, receipt_id, resp) ==
    find_in_registry(manager_ids, receipt_id, resp, "No such UAV")

find_command_receipt_by_id(manager_ids, receipt_id, resp) ==
    find_in_registry(manager_ids, receipt_id, resp, "No such receipt")

\* A grouping that keeps only the last UAV of each driver.
RECURSIVE sort_uavs_by_drivers_last(_, _, _, _)
sort_uavs_by_drivers_last(registry, uav_ids, result, resp) ==
    IF uav_ids = <<>> THEN [result |-> result, response |-> resp]
    ELSE LET uav_id == Head(uav_ids)
             look == find_uav_by_id(registry, uav_id, resp)
         IN sort_uavs_by_drivers_last(
                registry, Tail(uav_ids),
                IF look.found THEN Put(result, registry[uav_id], <<uav_id>>)
                ELSE result,
                look.response)

\* _sort_uavs_by_drivers: a defaultdict(list) from drivers to UAVs (named by
\* their ids), filled in the order of the ids of the request.
RECURSIVE sort_uavs_by_drivers(_, _, _, _)
sort_uavs_by_drivers(registry, uav_ids, result, resp) ==
    IF uav_ids = <<>> THEN [result |-> result, response |-> resp]
    ELSE LET uav_id == Head(uav_ids)
             look == find_uav_by_id(registry, uav_id, resp)
             driver == registry[uav_id]
             appended ==
                 IF driver \in DOMAIN result
                 THEN Put(result, driver, Append(result[driver], uav_id))
                 ELSE Put(result, driver, <<uav_id>>)
         IN sort_uavs_by_drivers(registry, Tail(uav_ids),
                                 IF look.found THEN appended ELSE result,
                                 look.response)

----------------------------------------------------------------------------
(* Device tree and subscriptions                                           *)

\* A path is the sequence of its segments: /v1/b/c is <<"v1", "b", "c">> and
\* the root / is <<>>.  Every registered UAV has a root node named by its id,
\* with a device b that has a channel c.
NodesOf(uav_id) == {<<uav_id>>, <<uav_id, "b">>, <<uav_id, "b", "c">>}

TreeOf(uav_ids) == {<<>>} \cup UNION {NodesOf(u) : u \in uav_ids}

\* The path is the root or lies under it.
IsAtOrUnder(path, root) ==
    Len(root) <= Len(path) /\ SubSeq(path, 1, Len(root)) = root

\* A removal that leaves the other copies of the path in the bag.
remove_path_once(bag, path) == bag (-) SetToBag({path})

\* Removes every copy of the path from a bag of paths.
remove_path(bag, path) == [q \in DOMAIN bag \ {path} |-> bag[q]]

\* DeviceTreeSubscriptionManager.subscribe: NoSuchPathError for a path that
\* resolves to no node, else one more subscription of the client to it.
subscribe(tree, subs, client, path) ==
    IF path \notin tree
    THEN [error |-> "NoSuchPathError", subs |-> subs]
    ELSE [error |-> "none",
          subs |-> [subs EXCEPT ![client] = @ (+) SetToBag({path})]]

\* DeviceTreeSubscriptionManager.unsubscribe: ClientNotSubscribedError when
\* the client has no subscription to the path; else every subscription is
\* removed (force) or one of them.
unsubscribe(subs, client, path, force) ==
    IF ~ BagIn(path, subs[client])
    THEN [error |-> "ClientNotSubscribedError", subs |-> subs]
    ELSE [error |-> "none",
          subs |-> [subs EXCEPT ![client] =
                       IF force THEN remove_path(@, path)
                       ELSE remove_path_once(@, path)]]

\* DeviceTreeSubscriptionManager.list_subscriptions: the bag of the client's
\* subscriptions at or under one of the roots of the filter.
list_subscriptions(subs, client, path_filter) ==
    [q \in {q \in DOMAIN subs[client] :
               \E i \in DOMAIN path_filter : IsAtOrUnder(q, path_filter[i])}
        |-> subs[client][q]]

\* A UAV enters the registry: its root node and the nodes below it appear in
\* the device tree.
register_uav(registry, tree, uav_id, driver) ==
    [registry |-> Put(registry, uav_id, driver),
     tree |-> tree \cup NodesOf(uav_id)]

\* A UAV leaves the registry: its root node and everything below it leave the
\* tree, and with them every subscription of every client to one of them.
deregister_uav(registry, tree, subs, uav_id) ==
    [registry |-> Pop(registry, uav_id),
     tree |-> {q \in tree : ~ IsAtOrUnder(q, <<uav_id>>)},
     subs |-> [c \in DOMAIN subs |->
                  [q \in {q \in DOMAIN subs[c] : ~ IsAtOrUnder(q, <<uav_id>>)}
                      |-> subs[c][q]]]]

\* The keys of a Counter, in the order in which a loop visits them.
RECURSIVE KeysOf(_)
KeysOf(bag) ==
    IF DOMAIN bag = {} THEN <<>>
    ELSE LET key == CHOOSE q \in DOMAIN bag : TRUE
         IN <<key>> \o KeysOf(remove_path(bag, key))

\* A loop that gives up at the first path that fails.
RECURSIVE subscribe_to_paths_until_failure(_, _, _, _)
subscribe_to_paths_until_failure(tree, client, paths, st) ==
    IF paths = <<>> THEN st
    ELSE LET path == Head(paths)
             tried == subscribe(tree, st.subs, client, path)
         IN IF tried.error = "NoSuchPathError"
            THEN [st EXCEPT !.response =
                     add_failure(@, path, "No such device tree path")]
            ELSE subscribe_to_paths_until_failure(
                     tree, client, Tail(paths),
                     [subs |-> tried.subs,
                      response |-> add_success(st.response, path)])

\* for path in paths: ... of create_DEV_SUB_message_for
RECURSIVE subscribe_to_paths(_, _, _, _)
subscribe_to_paths(tree, client, paths, st) ==
    IF paths = <<>> THEN st
    ELSE LET path == Head(paths)
             tried == subscribe(tree, st.subs, client, path)
         IN subscribe_to_paths(
                tree, client, Tail(paths),
                [subs |-> tried.subs,
                 response |->
                    IF tried.error = "NoSuchPathError"
                    THEN add_failure(st.response, path, "No such device tree path")
                    ELSE add_success(st.response, path)])

\* A handler that subscribes to the paths without looking at the tree.
create_DEV_SUB_message_for_any_path(tree, subs, client, paths, in_response_to) ==
    subscribe_to_paths(tree \cup Range(paths), client, paths,
                       [subs |-> subs,
                        response |-> create_response_or_notification(
                                         EmptyMap, in_response_to)])

\* create_DEV_SUB_message_for(client, paths, in_response_to)
create_DEV_SUB_message_for(tree, subs, client, paths, in_response_to) ==
    subscribe_to_paths(tree, client, paths,
                       [subs |-> subs,
                        response |-> create_response_or_notification(
                                         EmptyMap, in_response_to)])

\* An unsubscription that always removes every subscription to the path.
unsubscribe_forced(subs, client, path, force) ==
    unsubscribe(subs, client, path, TRUE)

\* manager.unsubscribe(client, path, force=remove_all)
unsubscribe_path(subs, client, path, remove_all) ==
    unsubscribe(subs, client, path, remove_all)

\* A loop that gives up at the first path that fails.
RECURSIVE unsubscribe_from_paths_until_failure(_, _, _, _)
unsubscribe_from_paths_until_failure(client, paths, remove_all, st) ==
    IF paths = <<>> THEN st
    ELSE LET path == Head(paths)
             tried == unsubscribe_path(st.subs, client, path, remove_all)
         IN IF tried.error = "ClientNotSubscribedError"
            THEN [st EXCEPT !.response =
                     add_failure(@, path, "Not subscribed to this path")]
            ELSE unsubscribe_from_paths_until_failure(
                     client, Tail(paths), remove_all,
                     [subs |-> tried.subs,
                      response |-> add_success(st.response, path)])

\* for path in paths: ... of create_DEV_UNSUB_message_for
RECURSIVE unsubscribe_from_paths(_, _, _, _)
unsubscribe_from_paths(client, paths, remove_all, st) ==
    IF paths = <<>> THEN st
    ELSE LET path == Head(paths)
             tried == unsubscribe_path(st.subs, client, path, remove_all)
         IN unsubscribe_from_paths(
                client, Tail(paths), remove_all,
                [subs |-> tried.subs,
                 response |->
                    IF tried.error = "NoSuchPathError"
                    THEN add_failure(st.response, path, "No such device tree path")
                    ELSE IF tried.error = "ClientNotSubscribedError"
                    THEN add_failure(st.response, path, "Not subscribed to this path")
                    ELSE add_success(st.response, path)])

\* A handler that does not look for the subscriptions in the subtrees.
create_DEV_UNSUB_message_for_given_paths(subs, client, paths, in_response_to, remove_all, include_subtrees) ==
    unsubscribe_from_paths(
        client, paths, remove_all,
        [subs |-> subs,
         response |-> create_response_or_notification(EmptyMap, in_response_to)])

\* create_DEV_UNSUB_message_for(client, paths, in_response_to, remove_all,
\* include_subtrees)
create_DEV_UNSUB_message_for(subs, client, paths, in_response_to, remove_all, include_subtrees) ==
    unsubscribe_from_paths(
        client,
        IF include_subtrees
        THEN KeysOf(list_subscriptions(subs, client, paths))
        ELSE paths,
        remove_all,
        [subs |-> subs,
         response |-> create_response_or_notification(EmptyMap, in_response_to)])

----------------------------------------------------------------------------
(* Command execution manager and its receipts                              *)

ReceiptId(n) == "r" \o ToString(n)

Terminal == {"finished", "timed_out", "cancelled"}

\* An allocation that hands out the first id again and again.
new_receipt_with_first_id(mgr) ==
    [id |-> ReceiptId(1),
     mgr |-> [status |-> Put(mgr.status, ReceiptId(1),
                             [state |-> "pending",
                              clients_to_notify |-> {},
                              clients_notified |-> FALSE]),
              registered |-> mgr.registered \cup {ReceiptId(1)},
              next_receipt |-> mgr.next_receipt + 1]]

\* CommandExecutionManager.new_receipt: a fresh id, a pending status object
\* with nobody to notify, registered in the manager.  mgr is the manager's
\* state [status, registered, next_receipt].
new_receipt(mgr) ==
    LET id == ReceiptId(mgr.next_receipt)
    IN [id |-> id,
        mgr |-> [status |-> Put(mgr.status, id,
                                [state |-> "pending",
                                 clients_to_notify |-> {},
                                 clients_notified |-> FALSE]),
                 registered |-> mgr.registered \cup {id},
                 next_receipt |-> mgr.next_receipt + 1]]

\* CommandExecutionStatus.add_client_to_notify
add_client_to_notify(mgr, receipt_id, client_id) ==
    [mgr EXCEPT !.status[receipt_id].clients_to_notify = @ \cup {client_id}]

\* CommandExecutionManager.mark_as_clients_notified
mark_as_clients_notified(mgr, receipt_id) ==
    IF receipt_id \in mgr.registered
    THEN [mgr EXCEPT !.status[receipt_id].clients_notified = TRUE]
    ELSE mgr

\* A finish that does not look at the state of the receipt.
manager_finish_unguarded(mgr, receipt_id) ==
    [mgr |-> [mgr EXCEPT !.status[receipt_id].state = "finished"],
     emitted |-> TRUE]

\* A finish that only refuses a receipt that is finished already.
manager_finish_unless_finished(mgr, receipt_id) ==
    IF mgr.status[receipt_id].state # "finished"
    THEN [mgr |-> [mgr EXCEPT !.status[receipt_id].state = "finished"],
          emitted |-> TRUE]
    ELSE [mgr |-> mgr, emitted |-> FALSE]

\* A finish that takes every receipt that is not in a final state of its
\* own making: a timed out receipt can still be finished.
manager_finish_late(mgr, receipt_id) ==
    IF mgr.status[receipt_id].state \in {"pending", "timed_out"}
    THEN [mgr |-> [mgr EXCEPT !.status[receipt_id].state = "finished"],
          emitted |-> TRUE]
    ELSE [mgr |-> mgr, emitted |-> FALSE]

\* CommandExecutionManager.finish: a pending receipt of the manager becomes
\* finished and the "finished" signal is emitted for it; anything else is a
\* no-op.
manager_finish(mgr, receipt_id) ==
    IF receipt_id \in mgr.registered /\ mgr.status[receipt_id].state = "pending"
    THEN [mgr |-> [mgr EXCEPT !.status[receipt_id].state = "finished"],
          emitted |-> TRUE]
    ELSE [mgr |-> mgr, emitted |-> FALSE]

\* CommandExecutionManager.cancel: a pending receipt becomes cancelled and
\* leaves the entries the manager sweeps; nobody is notified.
manager_cancel(mgr, receipt_id) ==
    IF mgr.status[receipt_id].state = "pending"
    THEN [mgr EXCEPT !.status[receipt_id].state = "cancelled",
                     !.registered = @ \ {receipt_id}]
    ELSE mgr

\* The sweep of the manager: the pending receipts S whose deadline has
\* passed become timed out.
manager_expire(mgr, S) ==
    [mgr EXCEPT !.status = [r \in DOMAIN @ |->
                               IF r \in S THEN [@[r] EXCEPT !.state = "timed_out"]
                               ELSE @[r]]]

\* The manager purges the entries whose notification was produced.
manager_purge(mgr, S) == [mgr EXCEPT !.registered = @ \ S]

\* A handler that sends the CMD-RESP to every client.
on_command_execution_finished_to_all(receipt_id, status_object) ==
    SetToBag({[type |-> "CMD-RESP", id |-> receipt_id, to |-> client_id] :
                 client_id \in ClientIds})

\* _on_command_execution_finished: a CMD-RESP notification, sent to every
\* client in the clients_to_notify of the status.
on_command_execution_finished(receipt_id, status_object) ==
    SetToBag({[type |-> "CMD-RESP", id |-> receipt_id, to |-> client_id] :
                 client_id \in status_object.clients_to_notify})

----------------------------------------------------------------------------
(* UAV drivers                                                             *)

\* What a driver can do when asked for a capability and called with a group
\* of UAVs: the attribute is missing (getattr raises AttributeError), the
\* lookup raises RuntimeError, the call raises NotImplementedError,
\* NotSupportedError, another RuntimeError or an exception that is no
\* RuntimeError (ValueError), or the call returns a result for each UAV.
FaultKinds == {"AttributeError", "LookupRuntimeError", "NotImplementedError",
               "NotSupportedError", "RuntimeError", "ValueError"}

\* Per-UAV results: Python's True, a CommandExecutionStatus made by the
\* driver through new_receipt, or any other value (here an error string).
ResultValues == {"True", "receipt", "Battery low"}

\* The result of a driver that ends the command before it returns: it calls
\* finish on the receipt it has just made and returns that receipt.
FinishedReceipt == "finished receipt"

Kinds == FaultKinds \cup {"results"}

\* The behaviours of the kinds K of a driver called with the UAVs uavs.
OutcomesFor(uavs, K) ==
    {[kind |-> k, results |-> EmptyMap] : k \in K \cap FaultKinds}
    \cup {[kind |-> "results", results |-> f] :
            f \in IF "results" \in K THEN [Range(uavs) -> ResultValues] ELSE {}}
    \cup {[kind |-> "results", results |-> f] :
            f \in IF "prompt results" \in K
                  THEN [Range(uavs) -> {FinishedReceipt}] ELSE {}}

\* One behaviour for every driver of a grouping.
DriverBehaviours(groups, K) ==
    {b \in [DOMAIN groups -> UNION {OutcomesFor(groups[d], K) : d \in DOMAIN groups}] :
        \A d \in DOMAIN groups : b[d] \in OutcomesFor(groups[d], K)}

\* CommandExecutionManager.finish as the driver calls it: the transition,
\* the handler of the "finished" signal with the messages it sends, and the
\* purge of the entry.
finish_command(mgr, receipt_id) ==
    LET done == manager_finish(mgr, receipt_id)
    IN IF done.emitted
       THEN [mgr |-> manager_purge(done.mgr, {receipt_id}),
             messages |-> on_command_execution_finished(
                              receipt_id, done.mgr.status[receipt_id])]
       ELSE [mgr |-> done.mgr, messages |-> EmptyBag]

\* The mapping a driver capability returns: what the driver decided for each
\* UAV, with a new receipt of the manager for every asynchronous result; a
\* command that ends at once is finished before the driver returns.
RECURSIVE driver_results(_, _, _, _, _)
driver_results(uavs, wanted, results, mgr, messages) ==
    IF uavs = <<>>
    THEN [results |-> results, mgr |-> mgr, messages |-> messages]
    ELSE LET uav == Head(uavs)
             made == new_receipt(mgr)
             done == finish_command(made.mgr, made.id)
         IN IF wanted[uav] = "receipt"
            THEN driver_results(Tail(uavs), wanted,
                                Put(results, uav, made.id), made.mgr, messages)
            ELSE IF wanted[uav] = FinishedReceipt
            THEN driver_results(Tail(uavs), wanted,
                                Put(results, uav, made.id), done.mgr,
                                messages (+) done.messages)
            ELSE driver_results(Tail(uavs), wanted,
                                Put(results, uav, wanted[uav]), mgr, messages)

\* The number of receipts a behaviour makes.
ReceiptsMade(beh) ==
    Cardinality({<<d, u>> \in (DOMAIN beh) \X UavIds :
                    /\ beh[d].kind = "results"
                    /\ u \in DOMAIN beh[d].results
                    /\ beh[d].results[u] \in {"receipt", FinishedReceipt}})

----------------------------------------------------------------------------
(* dispatch_to_uavs                                                        *)

DispatchTypes == {"CMD-REQ", "UAV-LAND", "UAV-TAKEOFF"}

\* The table from message types to driver methods; .get(message_type, None)
MethodName(message_type) ==
    CASE message_type = "CMD-REQ" -> "send_command"
      [] message_type = "UAV-LAND" -> "send_landing_signal"
      [] message_type = "UAV-TAKEOFF" -> "send_takeoff_signal"
      [] OTHER -> "None"

\* getattr(driver, method_name): the bound method, or the exception raised.
\* A name that is None raises TypeError, a missing attribute AttributeError.
getattr_outcome(kind, method_name) ==
    IF method_name = "None" THEN "TypeError"
    ELSE IF kind = "AttributeError" THEN "AttributeError"
    ELSE IF kind = "LookupRuntimeError" THEN "RuntimeError"
    ELSE "method"

\* except (RuntimeError, TypeError) around the lookup
LookupCaught == {"RuntimeError", "TypeError"}

\* The except clauses around the call: the common error of an exception
\* they catch.  NotImplementedError is a RuntimeError; ValueError is not.
CallCaught == {"NotImplementedError", "NotSupportedError", "RuntimeError"}

call_common_error(kind) ==
    CASE kind = "NotImplementedError" -> "Operation not implemented"
      [] kind = "NotSupportedError" -> "Operation not supported"
      [] kind = "RuntimeError" -> "Unexpected error: boom"

\* for uav in uavs: response.add_failure(uav.id, common_error)
RECURSIVE add_failures(_, _, _)
add_failures(resp, uavs, common_error) ==
    IF uavs = <<>> THEN resp
    ELSE add_failures(add_failure(resp, Head(uavs), common_error),
                      Tail(uavs), common_error)

\* What one result of a driver does to the response and to the manager.
\* An interpretation that does not add the sender to the clients of a receipt.
interpret_result_without_sender(uav, result, sender, st) ==
    IF result = "True"
    THEN [st EXCEPT !.response = add_success(@, uav)]
    ELSE IF result \in DOMAIN st.mgr.status
    THEN [st EXCEPT !.response = add_receipt(@, uav, result)]
    ELSE [st EXCEPT !.response = add_failure(@, uav, result)]

interpret_result(uav, result, sender, st) ==
    IF result = "True"
    THEN [st EXCEPT !.response = add_success(@, uav)]
    ELSE IF result \in DOMAIN st.mgr.status
    THEN [st EXCEPT
            !.response = add_receipt(@, uav, result),
            !.mgr = mark_as_clients_notified(
                        add_client_to_notify(@, result, sender), result)]
    ELSE [st EXCEPT !.response = add_failure(@, uav, result)]

\* for uav, result in iteritems(results): ...
RECURSIVE interpret_results(_, _, _, _)
interpret_results(uavs, results, sender, st) ==
    IF uavs = <<>> THEN st
    ELSE interpret_results(Tail(uavs), results, sender,
                           interpret_result(Head(uavs), results[Head(uavs)],
                                            sender, st))

\* The body of the loop over the drivers: look the method up, call it,
\* update the response.  st is [response, raised, calls, mgr, messages].
dispatch_to_driver(driver, uavs, method_name, parameters, outcome, sender, st) ==
    LET lookup == getattr_outcome(outcome.kind, method_name)
        called == [st EXCEPT !.calls =
                      Append(@, [driver |-> driver, method |-> method_name,
                                 uavs |-> uavs, parameters |-> parameters])]
        ret == driver_results(Distinct(uavs), outcome.results, EmptyMap, st.mgr,
                              EmptyBag)
    IN IF lookup # "method"
       THEN IF lookup \in LookupCaught
            THEN [st EXCEPT !.response =
                     add_failures(@, uavs, "Operation not supported")]
            ELSE [st EXCEPT !.raised = lookup]
       ELSE IF outcome.kind = "results"
       THEN interpret_results(Distinct(uavs), ret.results, sender,
                              [called EXCEPT !.mgr = ret.mgr,
                                             !.messages = @ (+) ret.messages])
       ELSE IF outcome.kind \in CallCaught
       THEN [called EXCEPT !.response =
                add_failures(@, uavs, call_common_error(outcome.kind))]
       ELSE [called EXCEPT !.raised = outcome.kind]

\* for driver, uavs in iteritems(uavs_by_drivers): an exception ends the loop
RECURSIVE dispatch_loop(_, _, _, _, _, _, _)
dispatch_loop(order, groups, method_name, parameters, beh, sender, st) ==
    IF order = <<>> \/ st.raised # "none" THEN st
    ELSE dispatch_loop(Tail(order), groups, method_name, parameters, beh, sender,
                       dispatch_to_driver(Head(order), groups[Head(order)],
                                          method_name, parameters,
                                          beh[Head(order)], sender, st))

UavsByDrivers(registry, uav_ids) ==
    sort_uavs_by_drivers(registry, uav_ids, EmptyMap, NoResponse).result

\* dispatch_to_uavs(message, sender), with the order in which the dict of
\* the drivers is iterated and what each driver does as further inputs.
dispatch_to_uavs(registry, message, sender, order, beh, mgr) ==
    LET created == create_response_or_notification(EmptyMap, message)
        parameters == Pop(Pop(message, "type"), "ids")
        sorted == sort_uavs_by_drivers(registry, message.ids, EmptyMap, created)
    IN dispatch_loop(order, sorted.result, MethodName(message.type),
                     parameters, beh, sender,
                     [response |-> sorted.response, raised |-> "none",
                      calls |-> <<>>, mgr |-> mgr, messages |-> EmptyBag])

\* The body of a request: CMD-REQ carries the command to send.
DispatchBody(type, ids) ==
    IF type = "CMD-REQ"
    THEN [type |-> type, ids |-> ids, command |-> "yo"]
    ELSE [type |-> type, ids |-> ids]

Manager == [status |-> status, registered |-> registered,
            next_receipt |-> next_receipt]

\* A handler that takes the UAVs it dispatches to out of the registry.
handle_UAV_operations_once(T, L, K) ==
    \E type \in T, ids \in L, sender \in ClientIds :
      LET message == DispatchBody(type, ids)
          groups == UavsByDrivers(uav_registry, ids)
      IN \E order \in Orders(DOMAIN groups), beh \in DriverBehaviours(groups, K) :
           LET out == dispatch_to_uavs(uav_registry, message, sender, order,
                                       beh, Manager)
           IN /\ next_receipt + ReceiptsMade(beh) <= MaxReceipts + 1
              /\ request' = [body |-> message, sender |-> sender]
              /\ response' = out.response
              /\ raised' = out.raised
              /\ calls' = out.calls
              /\ behaviour' = beh
              /\ status' = out.mgr.status
              /\ registered' = out.mgr.registered
              /\ next_receipt' = out.mgr.next_receipt
              /\ outbox' = out.messages
              /\ sent' = sent (+) out.messages
              /\ uav_registry' = [u \in DOMAIN uav_registry \ Range(ids) |->
                                     uav_registry[u]]
              /\ UNCHANGED batch
              /\ UNCHANGED <<subVars, rateVars>>
              /\ UNCHANGED extVars

\* @app.message_hub.on("CMD-REQ", "UAV-LAND", "UAV-TAKEOFF"): a request of
\* one of the types T with one of the id lists L from any client, the drivers
\* behaving in one of the ways K.
handle_UAV_operations(T, L, K) ==
    \E type \in T, ids \in L, sender \in ClientIds :
      LET message == DispatchBody(type, ids)
          groups == UavsByDrivers(uav_registry, ids)
      IN \E order \in Orders(DOMAIN groups), beh \in DriverBehaviours(groups, K) :
           LET out == dispatch_to_uavs(uav_registry, message, sender, order,
                                       beh, Manager)
           IN /\ next_receipt + ReceiptsMade(beh) <= MaxReceipts + 1
              /\ request' = [body |-> message, sender |-> sender]
              /\ response' = out.response
              /\ raised' = out.raised
              /\ calls' = out.calls
              /\ behaviour' = beh
              /\ status' = out.mgr.status
              /\ registered' = out.mgr.registered
              /\ next_receipt' = out.mgr.next_receipt
              /\ outbox' = out.messages
              /\ sent' = sent (+) out.messages
              /\ UNCHANGED <<uav_registry, batch>>
              /\ UNCHANGED <<subVars, rateVars>>
              /\ UNCHANGED extVars

----------------------------------------------------------------------------
(* GPSFix (flockwave/server/model/gps.py)                                  *)

\* An Optional[int] is the empty list (None) or the list of the one integer.
NoValue == <<>>

\* class GPSFixType(IntEnum): the members, the member of code n at n + 1
GPSFixTypeNames ==
    <<"NO_GPS", "NO_FIX", "FIX_2D", "FIX_3D", "DGPS", "RTK_FLOAT", "RTK_FIXED", "STATIC">>

GPSFixTypes == Range(GPSFixTypeNames)

\* int(member): the code of a member of GPSFixType
CodeOf(member) ==
    CHOOSE n \in 0..(Len(GPSFixTypeNames) - 1) : GPSFixTypeNames[n + 1] = member

\* GPSFixType(value): the member with the code, ValueError when there is none
GPSFixType(value) ==
    IF value \in 0..(Len(GPSFixTypeNames) - 1)
    THEN [raised |-> "none", member |-> GPSFixTypeNames[value + 1]]
    ELSE [raised |-> "ValueError", member |-> "none"]

\* GPSFix(): the defaults of the dataclass
NewGPSFix == [type |-> "NO_GPS", num_satellites |-> NoValue]

\* The arguments of update_from: a plain integer, a member of GPSFixType or
\* another GPSFix.
IntArgument(code) == [class |-> "int", code |-> code]
TypeArgument(member) == [class |-> "GPSFixType", member |-> member]
FixArgument(other) == [class |-> "GPSFix", fix |-> other]

\* isinstance(other, int): the members of an IntEnum are integers too
IsInt(other) == other.class \in {"int", "GPSFixType"}

\* An update that sets the type and keeps the number of satellites.
update_from_keeping_satellites(self, other) ==
    IF IsInt(other)
    THEN LET made == GPSFixType(IF other.class = "int" THEN other.code
                                ELSE CodeOf(other.member))
         IN IF made.raised # "none"
            THEN [self |-> self, raised |-> made.raised]
            ELSE [self |-> [self EXCEPT !.type = made.member], raised |-> "none"]
    ELSE [self |-> other.fix, raised |-> "none"]

\* GPSFix.update_from(other): the object after the call and the exception
\* that left it.  GPSFixType(other) raises before anything is assigned.
update_from(self, other) ==
    IF IsInt(other)
    THEN LET made == GPSFixType(IF other.class = "int" THEN other.code
                                ELSE CodeOf(other.member))
         IN IF made.raised # "none"
            THEN [self |-> self, raised |-> made.raised]
            ELSE [self |-> [type |-> made.member, num_satellites |-> NoValue],
                  raised |-> "none"]
    ELSE IF other.class = "GPSFixType"
    THEN [self |-> [type |-> other.member, num_satellites |-> NoValue],
          raised |-> "none"]
    ELSE [self |-> [type |-> other.fix.type,
                    num_satellites |-> other.fix.num_satellites],
          raised |-> "none"]

----------------------------------------------------------------------------
(* PreflightCheckInfo (flockwave/server/model/preflight.py)                *)

\* class PreflightCheckResult(Enum)
PreflightCheckResult ==
    {"OFF", "PASS", "WARNING", "RUNNING", "SOFT_FAILURE", "FAILURE", "ERROR"}

\* _numeric_preflight_check_results: the bidict from results to numbers
numeric_preflight_check_results ==
    ("OFF" :> 0) @@ ("PASS" :> 10) @@ ("WARNING" :> 20) @@ ("RUNNING" :> 30)
    @@ ("SOFT_FAILURE" :> 40) @@ ("FAILURE" :> 50) @@ ("ERROR" :> 60)

\* _numeric_preflight_check_results.get(result, 0)
numeric_get(result) ==
    IF result \in DOMAIN numeric_preflight_check_results
    THEN numeric_preflight_check_results[result]
    ELSE 0

\* _numeric_preflight_check_results.inverse[number]
numeric_inverse(number) ==
    CHOOSE r \in DOMAIN numeric_preflight_check_results :
        numeric_preflight_check_results[r] = number

\* max(...) of a non-empty set of numbers
Max(S) == CHOOSE n \in S : \A m \in S : m <= n

\* PreflightCheckItem(id, label): a new item is OFF
PreflightCheckItem(id, label) == [id |-> id, label |-> label, result |-> "OFF"]

\* A summary that is the result of the first item.
get_result_from_first_item(items) ==
    IF items = <<>> THEN [result |-> "OFF", running |-> FALSE]
    ELSE [result |-> items[1].result, running |-> items[1].result = "RUNNING"]

\* PreflightCheckInfo._get_result_from_items
get_result_from_items(items) ==
    IF items = <<>> THEN [result |-> "OFF", running |-> FALSE]
    ELSE LET running == \E i \in DOMAIN items : items[i].result = "RUNNING"
             result == Max({numeric_get(items[i].result) : i \in DOMAIN items})
         IN [result |-> numeric_inverse(result), running |-> running]

\* PreflightCheckInfo.update_summary
update_summary(self) ==
    LET summary == get_result_from_items(self.items)
    IN [self EXCEPT !.result = summary.result, !.in_progress = summary.running]

\* PreflightCheckInfo.__init__
NewPreflightCheckInfo ==
    update_summary([in_progress |-> FALSE, result |-> "OFF", items |-> <<>>])

\* PreflightCheckInfo.add_item
add_item(self, id, label) ==
    update_summary([self EXCEPT !.items = Append(@, PreflightCheckItem(id, label))])

----------------------------------------------------------------------------
(* Virtual UAVs (flockwave/server/ext/virtual_uavs/extension.py)           *)

\* self.uav_ids of the extension
VirtualUavIds == {"VIRT-0", "VIRT-1"}

\* A simulate_uav task that the nursery has not started yet.
NewTask == [pc |-> "new", boots |-> 0, shutdown_reason |-> "none"]

----------------------------------------------------------------------------
(* The dispatcher alone: one request of any kind, handled in a server with *)
(* any registry of UAVs.                                                   *)

Registries == UNION {[S -> DriverIds] : S \in SUBSET UavIds}

InitServer ==
    /\ status = EmptyMap
    /\ registered = {}
    /\ next_receipt = 1
    /\ sent = EmptyBag
    /\ outbox = EmptyBag
    /\ batch = <<>>
    /\ request = NoRequest
    /\ response = NoResponse
    /\ raised = "none"
    /\ calls = <<>>
    /\ behaviour = EmptyMap
    /\ subscriptions = [c \in ClientIds |-> EmptyBag]
    /\ window = [requests |-> 0, notifications |-> 0]
    /\ invoked = <<>>
    /\ clock_registry = {}
    /\ connection_registry = {}
    /\ proposed_index_pages = <<>>
    /\ fix = NewGPSFix
    /\ preflight = NewPreflightCheckInfo
    /\ tasks = [u \in VirtualUavIds |-> NewTask]
    /\ object_registry = {}

InitDispatch ==
    /\ uav_registry \in Registries
    /\ device_tree = TreeOf(DOMAIN uav_registry)
    /\ InitServer

Dispatch ==
    /\ request = NoRequest
    /\ handle_UAV_operations(DispatchTypes, SeqsUpTo(UavIds, MaxIds), Kinds)

NextDispatch == Dispatch

SpecDispatch == InitDispatch /\ [][NextDispatch]_vars

----------------------------------------------------------------------------
(* Finished and timed out commands                                         *)

\* A grouping that keeps only the last receipt id of each client.
RECURSIVE receipt_ids_by_clients_last(_, _, _)
receipt_ids_by_clients_last(statuses, objects, result) ==
    IF statuses = <<>> THEN result
    ELSE LET receipt_id == Head(statuses)
             clients == objects[receipt_id].clients_to_notify
         IN receipt_ids_by_clients_last(
                Tail(statuses), objects,
                [c \in DOMAIN result \cup clients |->
                    IF c \in clients THEN <<receipt_id>> ELSE result[c]])

\* A grouping that ends at the first status that has nobody to notify.
RECURSIVE receipt_ids_by_clients_until_empty(_, _, _)
receipt_ids_by_clients_until_empty(statuses, objects, result) ==
    IF statuses = <<>> THEN result
    ELSE LET receipt_id == Head(statuses)
             clients == objects[receipt_id].clients_to_notify
         IN IF clients = {} THEN result
            ELSE receipt_ids_by_clients_until_empty(
                     Tail(statuses), objects,
                     [c \in DOMAIN result \cup clients |->
                         IF c \in clients
                         THEN Append(IF c \in DOMAIN result THEN result[c] ELSE <<>>,
                                     receipt_id)
                         ELSE result[c]])

\* receipt_ids_by_clients of _on_command_execution_timeout: the ids of the
\* statuses, appended to the list of each client to notify.
RECURSIVE receipt_ids_by_clients(_, _, _)
receipt_ids_by_clients(statuses, objects, result) ==
    IF statuses = <<>> THEN result
    ELSE LET receipt_id == Head(statuses)
             clients == objects[receipt_id].clients_to_notify
         IN receipt_ids_by_clients(
                Tail(statuses), objects,
                [c \in DOMAIN result \cup clients |->
                    IF c \in clients
                    THEN Append(IF c \in DOMAIN result THEN result[c] ELSE <<>>,
                                receipt_id)
                    ELSE result[c]])

\* _on_command_execution_timeout: one CMD-TIMEOUT notification for every
\* client of the dict, with the receipt ids collected for it.
on_command_execution_timeout(statuses, objects) ==
    LET by_clients == receipt_ids_by_clients(statuses, objects, EmptyMap)
    IN SetToBag({[type |-> "CMD-TIMEOUT", ids |-> by_clients[client], to |-> client] :
                    client \in DOMAIN by_clients})

\* The receipts of S in the order in which they were made.
RECURSIVE InOrderOfCreation(_, _)
InOrderOfCreation(S, n) ==
    IF n = 0 THEN <<>>
    ELSE LET before == InOrderOfCreation(S, n - 1)
         IN IF ReceiptId(n) \in S THEN Append(before, ReceiptId(n)) ELSE before

Event(type, id) == [body |-> [type |-> type, ids |-> <<id>>], sender |-> "none"]

\* A driver reports the end of a command: CommandExecutionManager.finish,
\* the handler of the "finished" signal, and the purge of the entry.
Finish ==
    \E receipt_id \in DOMAIN status :
      LET done == manager_finish(Manager, receipt_id)
          messages == IF done.emitted
                      THEN on_command_execution_finished(
                               receipt_id, done.mgr.status[receipt_id])
                      ELSE EmptyBag
          purged == IF done.emitted
                    THEN manager_purge(done.mgr, {receipt_id})
                    ELSE done.mgr
      IN /\ status' = purged.status
         /\ registered' = purged.registered
         /\ outbox' = messages
         /\ sent' = sent (+) messages
         /\ request' = Event("finish", receipt_id)
         /\ response' = NoResponse
         /\ raised' = "none"
         /\ calls' = <<>>
         /\ behaviour' = EmptyMap
         /\ UNCHANGED <<uav_registry, next_receipt, batch>>
         /\ UNCHANGED <<subVars, rateVars>>
         /\ UNCHANGED extVars

\* The periodic sweep: the deadline of the pending receipts S has passed;
\* they time out, the "expired" signal is emitted with them and handled, and
\* the entries are purged.
Sweep ==
    \E S \in SUBSET {r \in registered : status[r].state = "pending"} :
      LET expired == manager_expire(Manager, S)
          statuses == InOrderOfCreation(S, next_receipt - 1)
          messages == on_command_execution_timeout(statuses, expired.status)
          purged == manager_purge(expired, S)
      IN /\ S # {}
         /\ status' = purged.status
         /\ registered' = purged.registered
         /\ batch' = statuses
         /\ outbox' = messages
         /\ sent' = sent (+) messages
         /\ request' = [body |-> [type |-> "sweep", ids |-> statuses],
                        sender |-> "none"]
         /\ response' = NoResponse
         /\ raised' = "none"
         /\ calls' = <<>>
         /\ behaviour' = EmptyMap
         /\ UNCHANGED <<uav_registry, next_receipt>>
         /\ UNCHANGED <<subVars, rateVars>>
         /\ UNCHANGED extVars

\* A loop that acknowledges the receipts it finds and cancels none.
RECURSIVE cancel_receipts_in_name_only(_, _)
cancel_receipts_in_name_only(receipt_ids, st) ==
    IF receipt_ids = <<>> THEN st
    ELSE LET receipt_id == Head(receipt_ids)
             look == find_command_receipt_by_id(st.mgr.registered, receipt_id,
                                                st.response)
         IN cancel_receipts_in_name_only(
                Tail(receipt_ids),
                [response |-> IF look.found
                              THEN add_success(look.response, receipt_id)
                              ELSE look.response,
                 mgr |-> st.mgr])

\* for receipt_id in receipt_ids: ... of create_CMD_DEL_message_for
RECURSIVE cancel_receipts(_, _)
cancel_receipts(receipt_ids, st) ==
    IF receipt_ids = <<>> THEN st
    ELSE LET receipt_id == Head(receipt_ids)
             look == find_command_receipt_by_id(st.mgr.registered, receipt_id,
                                                st.response)
         IN cancel_receipts(
                Tail(receipt_ids),
                IF look.found
                THEN [response |-> add_success(look.response, receipt_id),
                      mgr |-> manager_cancel(st.mgr, receipt_id)]
                ELSE [response |-> look.response, mgr |-> st.mgr])

\* create_CMD_DEL_message_for(receipt_ids, in_response_to)
create_CMD_DEL_message_for(receipt_ids, in_response_to, mgr) ==
    cancel_receipts(receipt_ids,
                    [response |-> create_response_or_notification(
                                      [type |-> "CMD-INF"], in_response_to),
                     mgr |-> mgr])

\* The receipt ids a client can name: those handed out so far and one that
\* was never handed out.
KnownReceiptIds == {ReceiptId(n) : n \in 1..next_receipt}

\* @app.message_hub.on("CMD-DEL"): a request with one of the id lists L
handle_CMD_DEL(L) ==
    \E ids \in L, sender \in ClientIds :
      LET message == [type |-> "CMD-DEL", ids |-> ids]
          out == create_CMD_DEL_message_for(ids, message, Manager)
      IN /\ request' = [body |-> message, sender |-> sender]
         /\ response' = out.response
         /\ raised' = "none"
         /\ calls' = <<>>
         /\ behaviour' = EmptyMap
         /\ status' = out.mgr.status
         /\ registered' = out.mgr.registered
         /\ outbox' = EmptyBag
         /\ UNCHANGED <<uav_registry, next_receipt, sent, batch>>
         /\ UNCHANGED <<subVars, rateVars>>
         /\ UNCHANGED extVars

----------------------------------------------------------------------------
(* The life of the receipts: commands sent to a UAV, and finished, timed   *)
(* out or cancelled in any order.                                          *)

InitCommands ==
    /\ uav_registry = [u \in {"v1"} |-> "d1"]
    /\ device_tree = TreeOf(DOMAIN uav_registry)
    /\ InitServer

SendCommand == handle_UAV_operations({"CMD-REQ"}, {<<"v1">>}, {"results"})

CancelCommands == handle_CMD_DEL(SeqsUpTo(KnownReceiptIds, 2) \ {<<>>})

NextCommands == SendCommand \/ Finish \/ Sweep \/ CancelCommands

SpecCommands == InitCommands /\ [][NextCommands]_vars

----------------------------------------------------------------------------
(* Receipts with and without clients to notify, and the queries about them *)

\* for receipt_id in receipt_ids: ... of create_CMD_INF_message_for
RECURSIVE receipt_infos(_, _, _)
receipt_infos(receipt_ids, mgr, st) ==
    IF receipt_ids = <<>> THEN st
    ELSE LET receipt_id == Head(receipt_ids)
             look == find_command_receipt_by_id(mgr.registered, receipt_id,
                                                st.response)
         IN receipt_infos(
                Tail(receipt_ids), mgr,
                [response |-> look.response,
                 receipts |-> IF look.found
                              THEN Put(st.receipts, receipt_id,
                                       mgr.status[receipt_id])
                              ELSE st.receipts])

\* create_CMD_INF_message_for(receipt_ids, in_response_to): the body has the
\* view of every receipt that was found.
create_CMD_INF_message_for(receipt_ids, in_response_to, mgr) ==
    LET out == receipt_infos(
                   receipt_ids, mgr,
                   [response |-> create_response_or_notification(
                                     [type |-> "CMD-INF", receipts |-> EmptyMap],
                                     in_response_to),
                    receipts |-> EmptyMap])
    IN [out.response EXCEPT !.body.receipts = out.receipts]

\* @app.message_hub.on("CMD-INF"): a request with one of the id lists L
handle_CMD_INF(L) ==
    \E ids \in L, sender \in ClientIds :
      LET message == [type |-> "CMD-INF", ids |-> ids]
      IN /\ request' = [body |-> message, sender |-> sender]
         /\ response' = create_CMD_INF_message_for(ids, message, Manager)
         /\ raised' = "none"
         /\ calls' = <<>>
         /\ behaviour' = EmptyMap
         /\ outbox' = EmptyBag
         /\ UNCHANGED <<uav_registry, sent, batch>>
         /\ UNCHANGED <<cmdVars, subVars, rateVars>>
         /\ UNCHANGED extVars

\* A driver starts a command that no client asked for: a receipt of the
\* manager with nobody to notify.
StartCommand ==
    LET made == new_receipt(Manager)
    IN /\ next_receipt <= MaxReceipts
       /\ status' = made.mgr.status
       /\ registered' = made.mgr.registered
       /\ next_receipt' = made.mgr.next_receipt
       /\ request' = Event("start", made.id)
       /\ response' = NoResponse
       /\ raised' = "none"
       /\ calls' = <<>>
       /\ behaviour' = EmptyMap
       /\ outbox' = EmptyBag
       /\ UNCHANGED <<uav_registry, sent, batch>>
       /\ UNCHANGED <<subVars, rateVars>>
       /\ UNCHANGED extVars

\* The id lists of the queries: two different receipts that were handed
\* out, or an id that was not handed out.
ReceiptIdLists ==
    ({<<a, b>> : a, b \in DOMAIN status} \ {<<a, a>> : a \in DOMAIN status})
    \cup {<<ReceiptId(next_receipt)>>}

QueryCommands == handle_CMD_INF(ReceiptIdLists)

NextReceipts ==
    \/ SendCommand
    \/ StartCommand
    \/ Finish
    \/ Sweep
    \/ QueryCommands
    \/ handle_CMD_DEL(ReceiptIdLists)

SpecReceipts == InitCommands /\ [][NextReceipts]_vars

----------------------------------------------------------------------------
(* UAV-INF notifications on request                                        *)

\* for uav_id in uav_ids: ... of create_UAV_INF_message_for
RECURSIVE uav_statuses(_, _, _)
uav_statuses(registry, uav_ids, st) ==
    IF uav_ids = <<>> THEN st
    ELSE LET uav_id == Head(uav_ids)
             look == find_uav_by_id(registry, uav_id, st.response)
         IN uav_statuses(
                registry, Tail(uav_ids),
                [response |-> look.response,
                 statuses |-> IF look.found
                              THEN Put(st.statuses, uav_id, [id |-> uav_id])
                              ELSE st.statuses])

\* create_UAV_INF_message_for(uav_ids, in_response_to): the body has the
\* status of every UAV that was found.
create_UAV_INF_message_for(registry, uav_ids, in_response_to) ==
    LET out == uav_statuses(
                   registry, uav_ids,
                   [response |-> create_response_or_notification(
                                     [type |-> "UAV-INF", status |-> EmptyMap],
                                     in_response_to),
                    statuses |-> EmptyMap])
    IN [out.response EXCEPT !.body.status = out.statuses]

\* request_to_send_UAV_INF_message_for(uav_ids), for one of the id lists L:
\* the notification is made and handed to the hub, for every client.
request_to_send_UAV_INF_message_for(L) ==
    \E uav_ids \in L :
      LET message == create_UAV_INF_message_for(uav_registry, uav_ids, "none")
      IN /\ window.requests < MaxRequests
         /\ window' = [requests |-> window.requests + 1,
                       notifications |-> window.notifications + 1]
         /\ outbox' = SetToBag({[type |-> "UAV-INF", message |-> message,
                                 to |-> "all"]})
         /\ request' = [body |-> [type |-> "request UAV-INF", ids |-> uav_ids],
                        sender |-> "none"]
         /\ response' = message
         /\ raised' = "none"
         /\ calls' = <<>>
         /\ behaviour' = EmptyMap
         /\ UNCHANGED <<uav_registry, sent, batch>>
         /\ UNCHANGED <<cmdVars, subVars>>
         /\ UNCHANGED extVars

\* No request comes for longer than any notification may be delayed: the
\* count of the requests and notifications starts anew.
Pause ==
    /\ window.requests > 0
    /\ window' = [requests |-> 0, notifications |-> 0]
    /\ request' = NoRequest
    /\ response' = NoResponse
    /\ raised' = "none"
    /\ calls' = <<>>
    /\ behaviour' = EmptyMap
    /\ outbox' = EmptyBag
    /\ UNCHANGED <<uav_registry, sent, batch>>
    /\ UNCHANGED <<cmdVars, subVars>>
    /\ UNCHANGED extVars

RequestStatus == request_to_send_UAV_INF_message_for(SeqsUpTo(UavIds, MaxIds))

NextStatus == RequestStatus \/ Pause

SpecStatus == InitDispatch /\ [][NextStatus]_vars

----------------------------------------------------------------------------
(* Subscriptions of two clients to the device tree of one UAV              *)

Count(client, path) == CopiesIn(path, subscriptions[client])

\* @app.message_hub.on("DEV-SUB"): a request with one of the path lists L
handle_DEV_SUB(L) ==
    \E paths \in L, sender \in ClientIds :
      LET message == [type |-> "DEV-SUB", paths |-> paths]
          out == create_DEV_SUB_message_for(device_tree, subscriptions, sender,
                                            paths, message)
      IN /\ \A c \in ClientIds : \A q \in DOMAIN out.subs[c] :
                out.subs[c][q] <= MaxCount
         /\ subscriptions' = out.subs
         /\ request' = [body |-> message, sender |-> sender]
         /\ response' = out.response
         /\ raised' = "none"
         /\ calls' = <<>>
         /\ behaviour' = EmptyMap
         /\ outbox' = EmptyBag
         /\ UNCHANGED <<uav_registry, device_tree, sent, batch>>
         /\ UNCHANGED <<cmdVars, rateVars>>
         /\ UNCHANGED extVars

\* @app.message_hub.on("DEV-UNSUB"): a request with one of the path lists L
handle_DEV_UNSUB(L) ==
    \E paths \in L, sender \in ClientIds, remove_all, include_subtrees \in BOOLEAN :
      LET message == [type |-> "DEV-UNSUB", paths |-> paths,
                      removeAll |-> remove_all,
                      includeSubtrees |-> include_subtrees]
          out == create_DEV_UNSUB_message_for(subscriptions, sender, paths,
                                              message, remove_all,
                                              include_subtrees)
      IN /\ subscriptions' = out.subs
         /\ request' = [body |-> message, sender |-> sender]
         /\ response' = out.response
         /\ raised' = "none"
         /\ calls' = <<>>
         /\ behaviour' = EmptyMap
         /\ outbox' = EmptyBag
         /\ UNCHANGED <<uav_registry, device_tree, sent, batch>>
         /\ UNCHANGED <<cmdVars, rateVars>>
         /\ UNCHANGED extVars

\* A UAV of U that is not registered is registered, with a driver of D.
RegisterUAV(U, D) ==
    \E uav_id \in U \ DOMAIN uav_registry, driver \in D :
      LET out == register_uav(uav_registry, device_tree, uav_id, driver)
      IN /\ uav_registry' = out.registry
         /\ device_tree' = out.tree
         /\ request' = Event("register", uav_id)
         /\ response' = NoResponse
         /\ raised' = "none"
         /\ calls' = <<>>
         /\ behaviour' = EmptyMap
         /\ outbox' = EmptyBag
         /\ UNCHANGED <<subscriptions, sent, batch>>
         /\ UNCHANGED <<cmdVars, rateVars>>
         /\ UNCHANGED extVars

\* A registered UAV of U is deregistered.
DeregisterUAV(U) ==
    \E uav_id \in U \cap DOMAIN uav_registry :
      LET out == deregister_uav(uav_registry, device_tree, subscriptions, uav_id)
      IN /\ uav_registry' = out.registry
         /\ device_tree' = out.tree
         /\ subscriptions' = out.subs
         /\ request' = Event("deregister", uav_id)
         /\ response' = NoResponse
         /\ raised' = "none"
         /\ calls' = <<>>
         /\ behaviour' = EmptyMap
         /\ outbox' = EmptyBag
         /\ UNCHANGED <<sent, batch>>
         /\ UNCHANGED <<cmdVars, rateVars>>
         /\ UNCHANGED extVars

\* The paths the clients name: the root node of the registered UAV, a
\* channel below it, and the root node of a UAV that is not registered.
RequestPaths == {<<"v1">>, <<"v1", "b", "c">>, <<"v2">>}

PathLists == SeqsUpTo(RequestPaths, 2) \ {<<>>}

InitSubscriptions ==
    /\ uav_registry = [u \in {"v1"} |-> "d1"]
    /\ device_tree = TreeOf(DOMAIN uav_registry)
    /\ InitServer

Subscribe == handle_DEV_SUB(PathLists)

Unsubscribe == handle_DEV_UNSUB(PathLists)

Register == RegisterUAV({"v1"}, {"d1"})

Deregister == DeregisterUAV({"v1"})

NextSubscriptions == Subscribe \/ Unsubscribe \/ Register \/ Deregister

SpecSubscriptions == InitSubscriptions /\ [][NextSubscriptions]_vars

----------------------------------------------------------------------------
(* Properties of the dispatcher                                            *)

Dispatched == request.body.type \in DispatchTypes

RequestedIds == Range(request.body.ids)

\* The grouping of the last request.
Groups == UavsByDrivers(uav_registry, request.body.ids)

Called(d) == \E i \in DOMAIN calls : calls[i].driver = d

\* In how many of the collections success, failure and receipt an id is.
OutcomeCount(id) ==
    CopiesIn(id, response.success)
    + (IF id \in DOMAIN response.failure THEN 1 ELSE 0)
    + (IF id \in DOMAIN response.receipt THEN 1 ELSE 0)

\* C1: every dispatch returns a response in which each requested id has
\* exactly one outcome (success, failure or receipt) and no other id has any.
C1_OneOutcomePerId ==
    Dispatched =>
        /\ raised = "none"
        /\ \A id \in UavIds :
              OutcomeCount(id) = IF id \in RequestedIds THEN 1 ELSE 0

\* The ways in which a driver lacks a capability: it has no such attribute,
\* or the method says that the operation is not supported.
Lacking == {"AttributeError", "NotSupportedError"}

\* C2: when one driver of a dispatch lacks the capability, the dispatch
\* returns, each of that driver's vehicles has the failure "Operation not
\* supported", and the vehicles another driver reports True for are successes.
C2_UnsupportedDriverDoesNotAbort ==
    Dispatched =>
        \A d, e \in DOMAIN behaviour :
            (behaviour[d].kind \in Lacking /\ behaviour[e].kind = "results") =>
                /\ raised = "none"
                /\ \A u \in Range(Groups[d]) :
                      /\ u \in DOMAIN response.failure
                      /\ response.failure[u] = "Operation not supported"
                /\ \A u \in Range(Groups[e]) :
                      behaviour[e].results[u] = "True" =>
                          BagIn(u, response.success)

\* The faults of a call that are neither not-supported nor not-implemented.
UnexpectedFaults == {"RuntimeError", "ValueError"}

\* C3: no unexpected fault of a driver call leaves the dispatcher, and the
\* vehicles of a driver whose call raised one all have the "Unexpected
\* error" failure.
C3_UnexpectedFaultsAreCaught ==
    Dispatched =>
        /\ raised \notin UnexpectedFaults
        /\ \A d \in DOMAIN behaviour :
              (behaviour[d].kind \in UnexpectedFaults /\ Called(d)) =>
                  \A u \in Range(Groups[d]) :
                      /\ u \in DOMAIN response.failure
                      /\ response.failure[u] = "Unexpected error: boom"

\* C8: in the response of a dispatch, a vehicle for which a called driver
\* gave True is a success, one for which it gave a receipt has that receipt
\* in the receipt collection with the sender among the receipt's clients to
\* notify, and one with any other result is a failure with that result as
\* the reason.
C8_ResultInterpretation ==
    Dispatched =>
        \A d \in DOMAIN behaviour :
            (behaviour[d].kind = "results" /\ Called(d)) =>
                \A u \in Range(Groups[d]) :
                    LET result == behaviour[d].results[u]
                    IN /\ OutcomeCount(u) = 1
                       /\ result = "True" => BagIn(u, response.success)
                       /\ result = "receipt" =>
                             /\ u \in DOMAIN response.receipt
                             /\ response.receipt[u] \in DOMAIN status
                             /\ request.sender \in
                                   status[response.receipt[u]].clients_to_notify
                       /\ result \notin {"True", "receipt"} =>
                             /\ u \in DOMAIN response.failure
                             /\ response.failure[u] = result

\* The scenario of C8: one vehicle with True, one with a receipt that has
\* the sender among its clients to notify.
C8_Witness ==
    /\ Dispatched /\ raised = "none"
    /\ \E u, v \in UavIds :
          /\ BagIn(u, response.success)
          /\ v \in DOMAIN response.receipt
          /\ request.sender \in status[response.receipt[v]].clients_to_notify

\* C9: an id the registry does not resolve has the failure "No such UAV" in
\* the response and is in no driver call; a resolved id has no such failure,
\* is in the group of its driver and in every call of that driver, and that
\* driver is called when it has the method and the dispatch returns.
C9_UnresolvedIdsAreNotDispatched ==
    Dispatched =>
        \A id \in RequestedIds :
            IF id \in DOMAIN uav_registry
            THEN /\ uav_registry[id] \in DOMAIN Groups
                 /\ id \in Range(Groups[uav_registry[id]])
                 /\ id \in DOMAIN response.failure =>
                        response.failure[id] # "No such UAV"
                 /\ \A i \in DOMAIN calls :
                        calls[i].driver = uav_registry[id] =>
                            id \in Range(calls[i].uavs)
                 /\ (raised = "none" /\ behaviour[uav_registry[id]].kind
                            \notin {"AttributeError", "LookupRuntimeError"})
                        => Called(uav_registry[id])
            ELSE /\ id \in DOMAIN response.failure
                 /\ response.failure[id] = "No such UAV"
                 /\ \A i \in DOMAIN calls : id \notin Range(calls[i].uavs)

\* A request with an unknown id and a known one whose driver was called.
C9_Witness ==
    /\ Dispatched /\ raised = "none"
    /\ \E id \in RequestedIds : id \notin DOMAIN uav_registry
    /\ \E id \in RequestedIds :
          /\ id \in DOMAIN uav_registry
          /\ Called(uav_registry[id])
          /\ BagIn(id, response.success)

----------------------------------------------------------------------------
(* Properties of the receipts                                              *)

Messages == BagToSet(sent)

\* A CMD-TIMEOUT naming receipt r was sent to client c.
TimeoutSent(r, c) ==
    \E m \in Messages : m.type = "CMD-TIMEOUT" /\ m.to = c /\ r \in Range(m.ids)

\* A CMD-RESP for receipt r was sent to client c.
RespSent(r, c) ==
    \E m \in Messages : m.type = "CMD-RESP" /\ m.to = c /\ m.id = r

Finishing == request.body.type = "finish"

\* C4: no receipt is ever reported both by a CMD-TIMEOUT and by a CMD-RESP;
\* a timed out receipt was reported by CMD-TIMEOUT to each of its clients to
\* notify and by CMD-RESP to nobody, whatever finish calls came after the
\* sweep; only timed out receipts are named in a CMD-TIMEOUT.
C4_TimeoutExcludesFinish ==
    \A r \in DOMAIN status :
        /\ ~ ((\E c \in ClientIds : TimeoutSent(r, c))
              /\ (\E c \in ClientIds : RespSent(r, c)))
        /\ status[r].state = "timed_out" =>
              /\ \A c \in status[r].clients_to_notify : TimeoutSent(r, c)
              /\ \A c \in ClientIds : ~ RespSent(r, c)
        /\ (\E c \in ClientIds : TimeoutSent(r, c)) => status[r].state = "timed_out"

\* A finish call for a receipt that had timed out and was reported so.
C4_Witness ==
    /\ Finishing
    /\ LET r == request.body.ids[1]
       IN /\ status[r].state = "timed_out"
          /\ \E c \in ClientIds : TimeoutSent(r, c)

\* C5: no CMD-RESP is sent twice; a finish call for a receipt that is
\* finished, and a CMD-DEL for receipts that are cancelled, change no receipt
\* and send nothing.
C5_RepeatedFinishAndCancel ==
    /\ [](\A m \in Messages : m.type = "CMD-RESP" => CopiesIn(m, sent) = 1)
    /\ [][(request'.body.type = "finish"
            /\ status[request'.body.ids[1]].state = "finished")
          => (status' = status /\ registered' = registered
              /\ sent' = sent /\ outbox' = EmptyBag)]_vars
    /\ [][(request'.body.type = "CMD-DEL"
            /\ \A r \in Range(request'.body.ids) :
                  r \in DOMAIN status /\ status[r].state = "cancelled")
          => (status' = status /\ registered' = registered
              /\ sent' = sent /\ outbox' = EmptyBag)]_vars

\* A second finish call for a receipt that has clients to notify: the
\* receipt is finished and the call sent nothing.
C5_Witness ==
    /\ Finishing
    /\ LET r == request.body.ids[1]
       IN /\ status[r].state = "finished"
          /\ status[r].clients_to_notify # {}
          /\ outbox = EmptyBag

\* C6: the state of a receipt changes only from pending, and only to
\* finished, timed_out or cancelled; a receipt in one of these states keeps
\* it in every step.
C6_TerminalStatesAreFinal ==
    [][\A r \in DOMAIN status :
          /\ r \in DOMAIN status'
          /\ status'[r].state # status[r].state =>
                (status[r].state = "pending" /\ status'[r].state \in Terminal)]_vars

\* A finish call for a receipt that had timed out or was cancelled.
C6_Witness ==
    /\ Finishing
    /\ status[request.body.ids[1]].state = "cancelled"
    /\ \E r \in DOMAIN status : status[r].state = "timed_out"

\* C7: after a sweep, a client named by a receipt of the batch got exactly
\* one CMD-TIMEOUT, whose ids are the receipts of the batch that name the
\* client, each once and in the order of the batch; no other client got a
\* message.
C7_OneTimeoutMessagePerClient ==
    request.body.type = "sweep" =>
        \A c \in ClientIds :
            LET mine == {m \in BagToSet(outbox) : m.to = c}
                Names(r) == c \in status[r].clients_to_notify
            IN IF \E i \in DOMAIN batch : Names(batch[i])
               THEN /\ Cardinality(mine) = 1
                    /\ \A m \in mine :
                          /\ CopiesIn(m, outbox) = 1
                          /\ m.type = "CMD-TIMEOUT"
                          /\ m.ids = SelectSeq(batch, Names)
               ELSE mine = {}

\* Two receipts of one client time out together: one message with both ids.
C7_Witness ==
    /\ request.body.type = "sweep"
    /\ Len(batch) = 2
    /\ \E m \in BagToSet(outbox) : m.ids = batch

\* How many CMD-RESP notifications for receipt r were sent to client c.
RespCount(r, c) == CopiesIn([type |-> "CMD-RESP", id |-> r, to |-> c], sent)

C14_CancelledReceiptsAreSilent ==
    /\ \A r \in DOMAIN status :
          status[r].state = "cancelled" =>
              /\ r \notin registered
              /\ \A c \in ClientIds : ~ RespSent(r, c) /\ ~ TimeoutSent(r, c)
    /\ request.body.type = "CMD-DEL" =>
          \A r \in Range(request.body.ids) :
              /\ r \notin registered
              /\ r \in DOMAIN status => status[r].state # "pending"
              /\ BagIn(r, response.success) =>
                    r \in DOMAIN status /\ status[r].state = "cancelled"

\* A finish call for a receipt that had been cancelled.
C14_Witness ==
    /\ Finishing
    /\ status[request.body.ids[1]].state = "cancelled"
    /\ outbox = EmptyBag

\* C18: a step that makes receipts leaves every receipt the manager has as
\* it was, and has as many more receipts as it made: no new receipt takes the
\* id of an outstanding one.
C18_OutstandingIdsAreUnique ==
    [][next_receipt' # next_receipt =>
         /\ \A r \in registered : r \in registered' /\ status'[r] = status[r]
         /\ Cardinality(registered' \ registered) = next_receipt' - next_receipt
         /\ registered' \subseteq DOMAIN status']_vars

\* Two receipts are outstanding at once.
C18_Witness == Cardinality(registered) >= 2

Purged(r) == r \in DOMAIN status /\ status[r].state \in {"finished", "timed_out"}

\* C19: a CMD-INF gives the view of each receipt it names that the manager
\* has, and the failure "No such receipt" and no view for each one the
\* manager does not have, purged ones among them; a CMD-DEL gives a purged
\* receipt that failure too and leaves none of the others pending.
C19_PurgedReceiptsAreNotFound ==
    /\ request.body.type = "CMD-INF" =>
          /\ DOMAIN response.body.receipts \subseteq Range(request.body.ids)
          /\ \A r \in Range(request.body.ids) :
                IF r \in registered
                THEN /\ r \in DOMAIN response.body.receipts
                     /\ response.body.receipts[r] = status[r]
                     /\ r \notin DOMAIN response.failure
                ELSE /\ r \in DOMAIN response.failure
                     /\ response.failure[r] = "No such receipt"
                     /\ r \notin DOMAIN response.body.receipts
    /\ request.body.type = "CMD-DEL" =>
          \A r \in Range(request.body.ids) :
              /\ Purged(r) =>
                    /\ r \in DOMAIN response.failure
                    /\ response.failure[r] = "No such receipt"
                    /\ ~ BagIn(r, response.success)
              /\ r \in DOMAIN status => status[r].state # "pending"

\* A CMD-INF that names a purged receipt and then one the manager has.
C19_Witness ==
    /\ request.body.type = "CMD-INF"
    /\ Len(request.body.ids) = 2
    /\ Purged(request.body.ids[1])
    /\ request.body.ids[1] \in DOMAIN response.failure
    /\ request.body.ids[2] \in DOMAIN response.body.receipts

Swept == request.body.type = "sweep"

\* C20: a sweep raises nothing; a receipt of its batch with nobody to notify
\* is timed out and purged and is named in no message, a receipt with
\* clients to notify is named in a CMD-TIMEOUT to each of them, and a batch
\* with nobody to notify at all sends nothing.
C20_NobodyToNotify ==
    Swept =>
        /\ raised = "none"
        /\ \A i \in DOMAIN batch :
              LET r == batch[i]
              IN /\ status[r].state = "timed_out"
                 /\ r \notin registered
                 /\ status[r].clients_to_notify = {} =>
                       \A m \in BagToSet(outbox) : r \notin Range(m.ids)
                 /\ \A c \in status[r].clients_to_notify :
                       \E m \in BagToSet(outbox) :
                           /\ m.type = "CMD-TIMEOUT"
                           /\ m.to = c
                           /\ r \in Range(m.ids)
        /\ (\A i \in DOMAIN batch : status[batch[i]].clients_to_notify = {})
              => outbox = EmptyBag

\* A batch of a receipt with nobody to notify and, after it, one with a
\* client, who got the CMD-TIMEOUT.
C20_Witness ==
    /\ Swept
    /\ Len(batch) = 2
    /\ status[batch[1]].clients_to_notify = {}
    /\ status[batch[2]].clients_to_notify # {}
    /\ outbox # EmptyBag

----------------------------------------------------------------------------
(* Properties of the subscriptions                                         *)

\* The change of a client's count for a path that the answer to a request
\* accounts for: one more per success of a DEV-SUB, one less per success of
\* a DEV-UNSUB, none left after a success of a DEV-UNSUB with removeAll.
CountAfter(count, message, answer, path) ==
    IF message.type = "DEV-SUB"
    THEN count + CopiesIn(path, answer.success)
    ELSE IF message.removeAll /\ BagIn(path, answer.success)
    THEN 0
    ELSE count - CopiesIn(path, answer.success)

\* C10: the count of a client's subscriptions to a path is the number of its
\* successful subscribes less the number of its successful unsubscribes
\* without removeAll, a successful unsubscribe with removeAll makes it zero,
\* and no request changes the count of another client.
C10_SubscriptionCounts ==
    [][request'.body.type \in {"DEV-SUB", "DEV-UNSUB"} =>
         \A c \in ClientIds : \A path \in TreeOf(UavIds) :
             CopiesIn(path, subscriptions'[c]) =
                 IF c = request'.sender
                 THEN CountAfter(Count(c, path), request'.body, response', path)
                 ELSE Count(c, path)]_vars

\* A client that subscribed twice to a path and then unsubscribed once,
\* without removeAll, is left with one subscription.
C10_Witness ==
    /\ request.body.type = "DEV-UNSUB"
    /\ ~ request.body.removeAll
    /\ \E path \in TreeOf(UavIds) :
          /\ BagIn(path, response.success)
          /\ Count(request.sender, path) = 1


SubtreeRequest ==
    request.body.type = "DEV-UNSUB" /\ request.body.includeSubtrees

\* The path is at or under one of the paths of the request.
Covered(path, paths) == \E i \in DOMAIN paths : IsAtOrUnder(path, paths[i])

\* C11 as stated: after a DEV-UNSUB with includeSubtrees the sender has no
\* subscription at or under a path of the request, whatever the counts were.
C11_SubtreesAreUnsubscribed ==
    SubtreeRequest =>
        \A path \in TreeOf(UavIds) :
            Covered(path, request.body.paths) => Count(request.sender, path) = 0

\* C11 as amended: a DEV-UNSUB with includeSubtrees leaves the sender with no
\* subscription at or under a path of the request when removeAll is set, and
\* with one subscription less to each such path when it is not; the sender's
\* other subscriptions stay as they are.
C11_SubtreesAreUnsubscribedOnce ==
    [][(request'.body.type = "DEV-UNSUB" /\ request'.body.includeSubtrees) =>
         \A path \in TreeOf(UavIds) :
             CopiesIn(path, subscriptions'[request'.sender]) =
                 IF ~ Covered(path, request'.body.paths)
                 THEN Count(request'.sender, path)
                 ELSE IF request'.body.removeAll \/ Count(request'.sender, path) = 0
                 THEN 0
                 ELSE Count(request'.sender, path) - 1]_vars

\* A request without removeAll for the root node of a UAV took one of the
\* sender's subscriptions to a channel below it and left another.
C11_Witness ==
    /\ SubtreeRequest
    /\ ~ request.body.removeAll
    /\ request.body.paths = <<(<<"v1">>)>>
    /\ BagIn(<<"v1", "b", "c">>, response.success)
    /\ Count(request.sender, <<"v1", "b", "c">>) = 1

\* C12: the tree has the nodes of the registered UAVs and no others, no
\* client is subscribed to a path that is not in the tree, and a DEV-SUB for
\* a path that is not in the tree reports "No such device tree path" for it
\* and subscribes nobody to it.
C12_DeregistrationCascades ==
    /\ device_tree = TreeOf(DOMAIN uav_registry)
    /\ \A c \in ClientIds : DOMAIN subscriptions[c] \subseteq device_tree
    /\ request.body.type = "DEV-SUB" =>
          \A path \in Range(request.body.paths) :
              path \notin device_tree =>
                  /\ path \in DOMAIN response.failure
                  /\ response.failure[path] = "No such device tree path"
                  /\ ~ BagIn(path, response.success)

\* A DEV-SUB for a channel of a UAV that was registered and is no more.
C12_Witness ==
    /\ "v1" \notin DOMAIN uav_registry
    /\ request.body.type = "DEV-SUB"
    /\ <<"v1", "b", "c">> \in DOMAIN response.failure

\* C16: an item of a DEV-UNSUB (without includeSubtrees) for a path the
\* sender is not subscribed to is the failure "Not subscribed to this path"
\* and changes no subscription; the paths of the request the sender is
\* subscribed to are still unsubscribed, and nothing else changes.
C16_NotSubscribedIsAFailure ==
    [][(request'.body.type = "DEV-UNSUB" /\ ~ request'.body.includeSubtrees) =>
         LET c == request'.sender
             paths == Range(request'.body.paths)
         IN /\ \A path \in paths :
                  IF Count(c, path) = 0
                  THEN /\ path \in DOMAIN response'.failure
                       /\ response'.failure[path] = "Not subscribed to this path"
                       /\ ~ BagIn(path, response'.success)
                       /\ CopiesIn(path, subscriptions'[c]) = 0
                  ELSE /\ BagIn(path, response'.success)
                       /\ CopiesIn(path, subscriptions'[c]) < Count(c, path)
            /\ \A path \in TreeOf(UavIds) \ paths :
                  CopiesIn(path, subscriptions'[c]) = Count(c, path)
            /\ \A d \in ClientIds \ {c} : subscriptions'[d] = subscriptions[d]]_vars

\* A request whose first path failed and whose second path was unsubscribed.
C16_Witness ==
    /\ request.body.type = "DEV-UNSUB"
    /\ ~ request.body.includeSubtrees
    /\ Len(request.body.paths) = 2
    /\ request.body.paths[1] \in DOMAIN response.failure
    /\ response.failure[request.body.paths[1]] = "Not subscribed to this path"
    /\ BagIn(request.body.paths[2], response.success)

\* How many items of a list of paths are the path.
Occurrences(paths, path) == Cardinality({i \in DOMAIN paths : paths[i] = path})

\* C17: every item of a DEV-SUB for a path that is a node of the tree is a
\* success and adds one to the sender's count for the path; an item for a
\* path that is no node is a failure and subscribes nobody; nothing else
\* changes, wherever the failing items are in the request.
C17_PathsAreSubscribedIndependently ==
    [][request'.body.type = "DEV-SUB" =>
         LET c == request'.sender
             paths == request'.body.paths
         IN /\ \A path \in TreeOf(UavIds) :
                  IF path \in device_tree
                  THEN /\ CopiesIn(path, response'.success) = Occurrences(paths, path)
                       /\ path \notin DOMAIN response'.failure
                       /\ CopiesIn(path, subscriptions'[c]) =
                              Count(c, path) + Occurrences(paths, path)
                  ELSE /\ Occurrences(paths, path) > 0 =>
                              /\ path \in DOMAIN response'.failure
                              /\ response'.failure[path] = "No such device tree path"
                       /\ ~ BagIn(path, response'.success)
                       /\ CopiesIn(path, subscriptions'[c]) = Count(c, path)
            /\ \A d \in ClientIds \ {c} : subscriptions'[d] = subscriptions[d]]_vars

\* A request whose first path is no node and whose second path was subscribed.
C17_Witness ==
    /\ request.body.type = "DEV-SUB"
    /\ Len(request.body.paths) = 2
    /\ request.body.paths[1] \in DOMAIN response.failure
    /\ BagIn(request.body.paths[2], response.success)
    /\ Count(request.sender, request.body.paths[2]) >= 1

----------------------------------------------------------------------------
(* Properties of the UAV-INF notifications                                 *)

\* C15: the first request after a pause is answered by a notification at
\* once, and the requests that follow it before the next pause are put
\* together into a single notification: however many requests there are,
\* there are at most two notifications.
C15_RequestsAreCoalesced ==
    /\ window.requests >= 1 => window.notifications >= 1
    /\ window.notifications <= 2

----------------------------------------------------------------------------
(* A GPSFix object and its updates                                         *)

\* The largest number of satellites of a fix.
MaxSatellites == 2

\* The server with no UAV registered, and new model objects.
InitModels ==
    /\ uav_registry = EmptyMap
    /\ device_tree = TreeOf({})
    /\ InitServer

\* The GPSFix objects.
Fixes ==
    [type : GPSFixTypes,
     num_satellites : {NoValue} \cup {<<n>> : n \in 0..MaxSatellites}]

\* The integers given to update_from: the codes, and one before and one
\* after them.
Codes == -1..Len(GPSFixTypeNames)

\* fix.update_from(other) for one of the arguments A
UpdateFrom(A) ==
    \E other \in A :
      LET out == update_from(fix, other)
      IN /\ fix' = out.self
         /\ raised' = out.raised
         /\ request' = [body |-> [type |-> "update_from", other |-> other],
                        sender |-> "none"]
         /\ response' = NoResponse
         /\ calls' = <<>>
         /\ behaviour' = EmptyMap
         /\ UNCHANGED <<serverVars, queryVars, indexVars, simVars, preflight>>

UpdateFromInt == UpdateFrom({IntArgument(code) : code \in Codes})

UpdateFromType == UpdateFrom({TypeArgument(member) : member \in GPSFixTypes})

UpdateFromFix == UpdateFrom({FixArgument(other) : other \in Fixes})

NextGPS == UpdateFromInt \/ UpdateFromType \/ UpdateFromFix

SpecGPS == InitModels /\ [][NextGPS]_vars

----------------------------------------------------------------------------
(* Properties of the GPSFix                                                *)

ValidCodes == 0..(Len(GPSFixTypeNames) - 1)

\* C26: update_from with a fix type, or with the integer code of one, sets
\* the type to it and clears num_satellites; with another GPSFix it copies
\* type and num_satellites; with an integer that is no code of a fix type it
\* raises and leaves both fields as they were; and the same update applied
\* once more changes nothing.
C26_UpdateFrom ==
    [][request'.body.type = "update_from" =>
         LET other == request'.body.other
         IN /\ other.class = "GPSFixType" =>
                  /\ raised' = "none"
                  /\ fix' = [type |-> other.member, num_satellites |-> NoValue]
            /\ (other.class = "int" /\ other.code \in ValidCodes) =>
                  /\ raised' = "none"
                  /\ CodeOf(fix'.type) = other.code
                  /\ fix'.num_satellites = NoValue
            /\ other.class = "GPSFix" =>
                  /\ raised' = "none"
                  /\ fix'.type = other.fix.type
                  /\ fix'.num_satellites = other.fix.num_satellites
            /\ (other.class = "int" /\ other.code \notin ValidCodes) =>
                  /\ raised' # "none"
                  /\ fix' = fix
            /\ update_from(fix', other).self = fix']_vars

\* An integer that is no code was given to a fix that has a number of
\* satellites, and the fix still has it.
C26_Witness ==
    /\ request.body.type = "update_from"
    /\ request.body.other.class = "int"
    /\ raised = "ValueError"
    /\ fix.num_satellites # NoValue
    /\ fix.type # "NO_GPS"

----------------------------------------------------------------------------
(* A PreflightCheckInfo object, its items and its summary                  *)

\* The most items of a preflight check report.
MaxItems == 2

PreflightEvent(type) == [body |-> [type |-> type], sender |-> "none"]

\* preflight.add_item(id)
AddItem ==
    /\ Len(preflight.items) < MaxItems
    /\ preflight' = add_item(preflight, "item" \o ToString(Len(preflight.items)),
                             "None")
    /\ request' = PreflightEvent("add_item")
    /\ raised' = "none"
    /\ response' = NoResponse
    /\ calls' = <<>>
    /\ behaviour' = EmptyMap
    /\ UNCHANGED <<serverVars, queryVars, indexVars, simVars, fix>>

\* item.result = result, by the driver that runs the check of the item; the
\* summary is as it was until update_summary is called.
SetItemResult ==
    \E i \in DOMAIN preflight.items, result \in PreflightCheckResult :
      /\ preflight' = [preflight EXCEPT !.items[i].result = result]
      /\ request' = PreflightEvent("item.result")
      /\ raised' = "none"
      /\ response' = NoResponse
      /\ calls' = <<>>
      /\ behaviour' = EmptyMap
      /\ UNCHANGED <<serverVars, queryVars, indexVars, simVars, fix>>

\* preflight.update_summary()
UpdateSummary ==
    /\ preflight' = update_summary(preflight)
    /\ request' = PreflightEvent("update_summary")
    /\ raised' = "none"
    /\ response' = NoResponse
    /\ calls' = <<>>
    /\ behaviour' = EmptyMap
    /\ UNCHANGED <<serverVars, queryVars, indexVars, simVars, fix>>

NextPreflight == AddItem \/ SetItemResult \/ UpdateSummary

SpecPreflight == InitModels /\ [][NextPreflight]_vars

----------------------------------------------------------------------------
(* Properties of the PreflightCheckInfo                                    *)

\* The order of the results, from the one that yields to every other.
ResultOrder ==
    <<"OFF", "PASS", "WARNING", "RUNNING", "SOFT_FAILURE", "FAILURE", "ERROR">>

Rank(result) == CHOOSE n \in DOMAIN ResultOrder : ResultOrder[n] = result

\* The object was made, or add_item or update_summary was the last call.
Summarised == request = NoRequest \/ request.body.type \in {"add_item", "update_summary"}

\* C29: after construction, add_item and update_summary the result is OFF
\* when there are no items, else the result of an item that no item
\* outranks in OFF < PASS < WARNING < RUNNING < SOFT_FAILURE < FAILURE <
\* ERROR, and in_progress is true exactly when an item is RUNNING.
C29_SummaryOfItems ==
    Summarised =>
        LET items == preflight.items
        IN /\ items = <<>> => preflight.result = "OFF"
           /\ items # <<>> =>
                 /\ \E i \in DOMAIN items : items[i].result = preflight.result
                 /\ \A i \in DOMAIN items :
                       Rank(items[i].result) <= Rank(preflight.result)
           /\ preflight.in_progress <=>
                 \E i \in DOMAIN items : items[i].result = "RUNNING"

\* A report with a passed first item and a second item that is running was
\* summarised: the result is RUNNING and the checks are in progress.
C29_Witness ==
    /\ request.body.type = "update_summary"
    /\ Len(preflight.items) = 2
    /\ preflight.items[1].result = "PASS"
    /\ preflight.items[2].result = "RUNNING"
    /\ preflight.result = "RUNNING"
    /\ preflight.in_progress

----------------------------------------------------------------------------
(* The queries: CLK-INF, CONN-INF, DEV-LIST, DEV-LISTSUB and the lists     *)

\* _find_clock_by_id
find_clock_by_id(clock_ids, clock_id, resp) ==
    find_in_registry(clock_ids, clock_id, resp, "No such clock")

\* _find_connection_by_id
find_connection_by_id(connection_ids, connection_id, resp) ==
    find_in_registry(connection_ids, connection_id, resp, "No such connection")

\* entry.json of a clock or of a connection
JsonOf(entry_id) == [id |-> entry_id]

\* for clock_id in clock_ids: ... of create_CLK_INF_message_for
RECURSIVE clock_statuses(_, _, _)
clock_statuses(registry_ids, clock_ids, st) ==
    IF clock_ids = <<>> THEN st
    ELSE LET clock_id == Head(clock_ids)
             look == find_clock_by_id(registry_ids, clock_id, st.response)
         IN clock_statuses(
                registry_ids, Tail(clock_ids),
                [response |-> look.response,
                 statuses |-> IF look.found
                              THEN Put(st.statuses, clock_id, JsonOf(clock_id))
                              ELSE st.statuses])

\* create_CLK_INF_message_for(clock_ids, in_response_to)
create_CLK_INF_message_for(registry_ids, clock_ids, in_response_to) ==
    LET out == clock_statuses(
                   registry_ids, clock_ids,
                   [response |-> create_response_or_notification(
                                     [type |-> "CLK-INF", status |-> EmptyMap],
                                     in_response_to),
                    statuses |-> EmptyMap])
    IN [out.response EXCEPT !.body.status = out.statuses]

\* for connection_id in connection_ids: ... of create_CONN_INF_message_for
RECURSIVE connection_statuses(_, _, _)
connection_statuses(registry_ids, connection_ids, st) ==
    IF connection_ids = <<>> THEN st
    ELSE LET connection_id == Head(connection_ids)
             look == find_connection_by_id(registry_ids, connection_id,
                                           st.response)
         IN connection_statuses(
                registry_ids, Tail(connection_ids),
                [response |-> look.response,
                 statuses |-> IF look.found
                              THEN Put(st.statuses, connection_id,
                                       JsonOf(connection_id))
                              ELSE st.statuses])

\* create_CONN_INF_message_for(connection_ids, in_response_to)
create_CONN_INF_message_for(registry_ids, connection_ids, in_response_to) ==
    LET out == connection_statuses(
                   registry_ids, connection_ids,
                   [response |-> create_response_or_notification(
                                     [type |-> "CONN-INF", status |-> EmptyMap],
                                     in_response_to),
                    statuses |-> EmptyMap])
    IN [out.response EXCEPT !.body.status = out.statuses]

\* A loop that gives up at the first id that is not found.
RECURSIVE uav_devices_until_failure(_, _, _)
uav_devices_until_failure(registry, uav_ids, st) ==
    IF uav_ids = <<>> THEN st
    ELSE LET uav_id == Head(uav_ids)
             look == find_uav_by_id(registry, uav_id, st.response)
         IN IF ~ look.found
            THEN [st EXCEPT !.response = look.response]
            ELSE uav_devices_until_failure(
                     registry, Tail(uav_ids),
                     [response |-> look.response,
                      devices |-> Put(st.devices, uav_id, NodesOf(uav_id))])

\* for uav_id in uav_ids: ... of create_DEV_LIST_message_for
RECURSIVE uav_devices(_, _, _)
uav_devices(registry, uav_ids, st) ==
    IF uav_ids = <<>> THEN st
    ELSE LET uav_id == Head(uav_ids)
             look == find_uav_by_id(registry, uav_id, st.response)
         IN uav_devices(
                registry, Tail(uav_ids),
                [response |-> look.response,
                 devices |-> IF look.found
                             THEN Put(st.devices, uav_id, NodesOf(uav_id))
                             ELSE st.devices])

\* create_DEV_LIST_message_for(uav_ids, in_response_to)
create_DEV_LIST_message_for(registry, uav_ids, in_response_to) ==
    LET out == uav_devices(
                   registry, uav_ids,
                   [response |-> create_response_or_notification(
                                     [type |-> "DEV-LIST", devices |-> EmptyMap],
                                     in_response_to),
                    devices |-> EmptyMap])
    IN [out.response EXCEPT !.body.devices = out.devices]

\* Counter.elements(): every key, as many times as its count
RECURSIVE elements(_)
elements(bag) ==
    IF DOMAIN bag = {} THEN <<>>
    ELSE LET key == Head(KeysOf(bag))
         IN [i \in 1..bag[key] |-> key] \o elements(remove_path(bag, key))

\* A listing that takes no notice of the filter.
create_DEV_LISTSUB_message_for_unfiltered(subs, client, path_filter, in_response_to) ==
    create_response_or_notification(
        [type |-> "DEV-LISTSUB",
         paths |-> elements(list_subscriptions(subs, client, <<(<<>>)>>))],
        in_response_to)

\* create_DEV_LISTSUB_message_for(client, path_filter, in_response_to)
create_DEV_LISTSUB_message_for(subs, client, path_filter, in_response_to) ==
    create_response_or_notification(
        [type |-> "DEV-LISTSUB",
         paths |-> elements(list_subscriptions(subs, client, path_filter))],
        in_response_to)

\* for path in paths: ... of the DEV-INF builder of the subscription manager
RECURSIVE channel_values(_, _, _)
channel_values(tree, paths, st) ==
    IF paths = <<>> THEN st
    ELSE LET path == Head(paths)
         IN channel_values(
                tree, Tail(paths),
                IF path \in tree
                THEN [st EXCEPT !.values = Put(@, path, JsonOf(path))]
                ELSE [st EXCEPT !.response =
                         add_failure(@, path, "No such device tree path")])

\* create_DEV_INF_message_for(paths, in_response_to): the values of the
\* channels under the paths that the device tree has.
create_DEV_INF_message_for(tree, paths, in_response_to) ==
    LET out == channel_values(
                   tree, paths,
                   [response |-> create_response_or_notification(
                                     [type |-> "DEV-INF", values |-> EmptyMap],
                                     in_response_to),
                    values |-> EmptyMap])
    IN [out.response EXCEPT !.body.values = out.values]

\* The path "/" of the device tree, and the filter of a DEV-LISTSUB message
\* that has none: message.body.get("pathFilter", ("/", ))
RootPath == <<>>

PathFilterOf(message) ==
    IF "pathFilter" \in DOMAIN message THEN message.pathFilter ELSE <<RootPath>>

\* The message types that have a handler: @app.message_hub.on(...)
HandlerTypes ==
    {"CLK-INF", "CLK-LIST", "CMD-DEL", "CMD-INF", "CONN-INF", "CONN-LIST",
     "DEV-INF", "DEV-LIST", "DEV-LISTSUB", "DEV-SUB", "DEV-UNSUB", "SYS-PING",
     "SYS-VER", "UAV-INF", "UAV-LIST", "CMD-REQ", "UAV-LAND", "UAV-TAKEOFF"}

\* The queries about the entries named by a list of ids.
IdListQueries == {"CLK-INF", "CONN-INF", "UAV-INF", "DEV-LIST", "CMD-INF"}

\* The handlers that answer from the state of the server and leave it alone.
QueryTypes ==
    IdListQueries \cup {"CLK-LIST", "CONN-LIST", "UAV-LIST", "DEV-LISTSUB",
                        "DEV-INF", "SYS-PING", "SYS-VER"}

\* The ids of a registry as a list: list(registry.ids)
RECURSIVE ListOf(_)
ListOf(S) ==
    IF S = {} THEN <<>>
    ELSE LET id == CHOOSE id \in S : TRUE IN <<id>> \o ListOf(S \ {id})

\* What the handler of a query returns: a message, or a body that the hub
\* makes a response of.
handle_query(message, sender) ==
    CASE message.type = "CLK-INF" ->
           create_CLK_INF_message_for(clock_registry, message.ids, message)
      [] message.type = "CLK-LIST" ->
           create_response_or_notification(
               [type |-> "CLK-LIST", ids |-> ListOf(clock_registry)], message)
      [] message.type = "CMD-INF" ->
           create_CMD_INF_message_for(message.ids, message, Manager)
      [] message.type = "CONN-INF" ->
           create_CONN_INF_message_for(connection_registry, message.ids, message)
      [] message.type = "CONN-LIST" ->
           create_response_or_notification(
               [type |-> "CONN-LIST", ids |-> ListOf(connection_registry)], message)
      [] message.type = "DEV-INF" ->
           create_DEV_INF_message_for(device_tree, message.paths, message)
      [] message.type = "DEV-LIST" ->
           create_DEV_LIST_message_for(uav_registry, message.ids, message)
      [] message.type = "DEV-LISTSUB" ->
           create_DEV_LISTSUB_message_for(subscriptions, sender,
                                          PathFilterOf(message), message)
      [] message.type = "SYS-PING" ->
           create_response_or_notification([type |-> "ACK-ACK"], message)
      [] message.type = "SYS-VER" ->
           create_response_or_notification(
               [type |-> "SYS-VER", software |-> "flockwave-server"], message)
      [] message.type = "UAV-INF" ->
           create_UAV_INF_message_for(uav_registry, message.ids, message)
      [] message.type = "UAV-LIST" ->
           create_response_or_notification(
               [type |-> "UAV-LIST", ids |-> ListOf(DOMAIN uav_registry)], message)

\* The registries, the receipts of the manager, the device tree and the
\* subscriptions: the state of the server that the handlers work on.
Server ==
    [uav_registry |-> uav_registry,
     clock_registry |-> clock_registry,
     connection_registry |-> connection_registry,
     status |-> status,
     registered |-> registered,
     next_receipt |-> next_receipt,
     device_tree |-> device_tree,
     subscriptions |-> subscriptions]

\* Handlers of which the one of CMD-INF calls the builder of CMD-DEL, the
\* builder whose message has the type CMD-INF.
query_handler_cancelling(message, sender, server) ==
    IF message.type = "CMD-INF"
    THEN LET out == create_CMD_DEL_message_for(message.ids, message, Manager)
         IN [response |-> out.response,
             server |-> [server EXCEPT !.status = out.mgr.status,
                                       !.registered = out.mgr.registered]]
    ELSE [response |-> handle_query(message, sender), server |-> server]

\* The handlers of the queries: each returns what its builder made of the
\* state of the server; no handler and no builder assigns to that state,
\* which is left as the handler found it.
query_handler(message, sender, server) ==
    [response |-> handle_query(message, sender), server |-> server]

\* A hub that raises for a message it has no handler for.
hub_dispatch_or_raise(message, sender) ==
    IF message.type \notin HandlerTypes
    THEN [invoked |-> <<>>, raised |-> "KeyError", response |-> NoResponse,
          server |-> Server]
    ELSE LET out == query_handler(message, sender, Server)
         IN [invoked |-> <<message.type>>, raised |-> "none",
             response |-> out.response, server |-> out.server]

\* MessageHub.dispatch(incoming, sender): the handler of the type of the
\* message is looked up and invoked; a message of a type without a handler
\* is answered by a response with a failure.
hub_dispatch(message, sender) ==
    IF message.type \notin HandlerTypes
    THEN [invoked |-> <<>>, raised |-> "none",
          response |-> create_response_or_notification(
                           [type |-> "ACK-NAK",
                            reason |-> "unsupported message type"],
                           message),
          server |-> Server]
    ELSE LET out == query_handler(message, sender, Server)
         IN [invoked |-> <<message.type>>, raised |-> "none",
             response |-> out.response, server |-> out.server]

\* The hub gets one of the messages M from a client: a query, or a message
\* of a type that has no handler.
HandleMessage(M) ==
    \E message \in M, sender \in ClientIds :
      LET out == hub_dispatch(message, sender)
      IN /\ message.type \in QueryTypes \/ message.type \notin HandlerTypes
         /\ request' = [body |-> message, sender |-> sender]
         /\ response' = out.response
         /\ raised' = out.raised
         /\ invoked' = out.invoked
         /\ calls' = <<>>
         /\ behaviour' = EmptyMap
         /\ outbox' = EmptyBag
         /\ uav_registry' = out.server.uav_registry
         /\ clock_registry' = out.server.clock_registry
         /\ connection_registry' = out.server.connection_registry
         /\ status' = out.server.status
         /\ registered' = out.server.registered
         /\ next_receipt' = out.server.next_receipt
         /\ device_tree' = out.server.device_tree
         /\ subscriptions' = out.server.subscriptions
         /\ UNCHANGED <<sent, batch, rateVars>>
         /\ UNCHANGED <<indexVars, modelVars, simVars>>

\* The ids the clients name: of an entry that can be in the registry and of
\* one that never is.
ClockIds == {"system", "mtc"}

ConnectionIds == {"radio", "wire"}

QueriedUavIds == {"v1", "v2"}

\* A clock of C is added to the clock registry.
RegisterClock(C) ==
    \E clock_id \in C \ clock_registry :
      /\ clock_registry' = clock_registry \cup {clock_id}
      /\ request' = Event("clock", clock_id)
      /\ response' = NoResponse
      /\ raised' = "none"
      /\ invoked' = <<>>
      /\ calls' = <<>>
      /\ behaviour' = EmptyMap
      /\ outbox' = EmptyBag
      /\ UNCHANGED <<uav_registry, cmdVars, sent, batch, subVars, rateVars>>
      /\ UNCHANGED <<connection_registry, indexVars, modelVars, simVars>>

\* A connection of C is added to the connection registry.
RegisterConnection(C) ==
    \E connection_id \in C \ connection_registry :
      /\ connection_registry' = connection_registry \cup {connection_id}
      /\ request' = Event("connection", connection_id)
      /\ response' = NoResponse
      /\ raised' = "none"
      /\ invoked' = <<>>
      /\ calls' = <<>>
      /\ behaviour' = EmptyMap
      /\ outbox' = EmptyBag
      /\ UNCHANGED <<uav_registry, cmdVars, sent, batch, subVars, rateVars>>
      /\ UNCHANGED <<clock_registry, indexVars, modelVars, simVars>>

IdLists(S) == SeqsUpTo(S, MaxIds) \ {<<>>}

\* The queries with a list of ids.
IdListMessages ==
    {[type |-> "CLK-INF", ids |-> ids] : ids \in IdLists(ClockIds)}
    \cup {[type |-> "CONN-INF", ids |-> ids] : ids \in IdLists(ConnectionIds)}
    \cup {[type |-> t, ids |-> ids] :
             t \in {"UAV-INF", "DEV-LIST"}, ids \in IdLists(QueriedUavIds)}
    \cup {[type |-> "CMD-INF", ids |-> ids] :
             ids \in IdLists({ReceiptId(1), ReceiptId(MaxReceipts + 1)})}

\* The queries without arguments.
PlainMessages ==
    {[type |-> t] : t \in {"CLK-LIST", "CONN-LIST", "UAV-LIST", "SYS-PING", "SYS-VER"}}

\* Messages of types that the server has no handler for.
UnknownMessages ==
    {[type |-> "UAV-FLY", ids |-> <<"v1">>], [type |-> "SYS-NOPE"]}

QueryByIds == HandleMessage(IdListMessages)

QueryPlain == HandleMessage(PlainMessages)

SendUnknown == HandleMessage(UnknownMessages)

NextQueries ==
    \/ StartCommand
    \/ RegisterClock({"system"})
    \/ RegisterConnection({"radio"})
    \/ QueryByIds
    \/ QueryPlain
    \/ SendUnknown

SpecQueries == InitCommands /\ [][NextQueries]_vars

----------------------------------------------------------------------------
(* Properties of the hub and of the queries                                *)

\* C21: a message of a type that has no handler raises nothing; the hub
\* answers it with a response to that message that carries the failure
\* "unsupported message type", and invokes no handler.
C21_UnsupportedMessageType ==
    (request.sender \in ClientIds /\ request.body.type \notin HandlerTypes) =>
        /\ raised = "none"
        /\ invoked = <<>>
        /\ response.in_response_to = request.body
        /\ response.body.reason = "unsupported message type"
        /\ response.success = EmptyBag

\* A message of an unknown type that names a UAV was answered.
C21_Witness ==
    /\ request.sender \in ClientIds
    /\ request.body.type = "UAV-FLY"
    /\ response.in_response_to = request.body
    /\ response # NoResponse

\* The ids of the registry that a query looks its ids up in.
RegistryOf(type) ==
    CASE type = "CLK-INF" -> clock_registry
      [] type = "CONN-INF" -> connection_registry
      [] type \in {"UAV-INF", "DEV-LIST"} -> DOMAIN uav_registry
      [] type = "CMD-INF" -> registered

\* The reason with which the registry of a query fails.
NoSuchEntry(type) ==
    CASE type = "CLK-INF" -> "No such clock"
      [] type = "CONN-INF" -> "No such connection"
      [] type \in {"UAV-INF", "DEV-LIST"} -> "No such UAV"
      [] type = "CMD-INF" -> "No such receipt"

\* The mapping of the results in the body of the response to a query.
ResultsOf(resp) ==
    CASE resp.body.type \in {"CLK-INF", "CONN-INF", "UAV-INF"} -> resp.body.status
      [] resp.body.type = "DEV-LIST" -> resp.body.devices
      [] resp.body.type = "CMD-INF" -> resp.body.receipts

\* C22: in the response to a CLK-INF, CONN-INF, UAV-INF, DEV-LIST or CMD-INF
\* query, every id of the request that is in the registry is in the results
\* and has no failure, every other id of the request has the failure of the
\* registry and no result, and no other id is in the response.
C22_FoundOrFailed ==
    (request.sender \in ClientIds /\ request.body.type \in IdListQueries) =>
        LET type == request.body.type
            results == ResultsOf(response)
        IN /\ raised = "none"
           /\ response.body.type = type
           /\ DOMAIN results \cup DOMAIN response.failure
                 \subseteq Range(request.body.ids)
           /\ \A id \in Range(request.body.ids) :
                 IF id \in RegistryOf(type)
                 THEN id \in DOMAIN results /\ id \notin DOMAIN response.failure
                 ELSE /\ id \notin DOMAIN results
                      /\ id \in DOMAIN response.failure
                      /\ response.failure[id] = NoSuchEntry(type)

\* A DEV-LIST that names a UAV that is not registered and then one that is.
C22_Witness ==
    /\ request.body.type = "DEV-LIST"
    /\ request.body.ids = <<"v2", "v1">>
    /\ "v2" \in DOMAIN response.failure
    /\ "v1" \in DOMAIN response.body.devices

----------------------------------------------------------------------------
(* The index page: propose_as_index_page and index_url                     *)

\* The most proposals of an index page.
MaxProposals == 3
\* The largest priority of a proposal; the default priority is 0.
MaxPriority == 2

\* The names of the routes that are proposed, in the order of Python's
\* comparison of strings.
Routes == <<"debug.index", "gcs.index", "webui.index">>

RouteLess(a, b) ==
    \E i, j \in DOMAIN Routes : Routes[i] = a /\ Routes[j] = b /\ i < j

\* (priority, route) < (priority, route) for Python's tuples
TupleLess(x, y) == x[1] < y[1] \/ (x[1] = y[1] /\ RouteLess(x[2], y[2]))

\* heapq._siftdown: the new item moves up from pos while it is less than the
\* item at the parent of pos (pos \div 2 when the first item is at 1).
RECURSIVE siftdown(_, _, _)
siftdown(heap, newitem, pos) ==
    IF pos > 1 /\ TupleLess(newitem, heap[pos \div 2])
    THEN siftdown([heap EXCEPT ![pos] = heap[pos \div 2]], newitem, pos \div 2)
    ELSE [heap EXCEPT ![pos] = newitem]

\* heapq.heappush(heap, item)
heappush(heap, item) == siftdown(Append(heap, item), item, Len(heap) + 1)

\* flask.url_for(route)
url_for(route) == "/" \o route

\* FlockwaveServer.index_url: the URL in a list of one, or no value
index_url(pages) == IF pages # <<>> THEN <<url_for(pages[1][2])>> ELSE NoValue

\* propose_as_index_page(route, priority)
propose_as_index_page ==
    \E route \in Range(Routes), priority \in 0..MaxPriority :
      /\ Len(proposed_index_pages) < MaxProposals
      /\ proposed_index_pages' = heappush(proposed_index_pages, <<priority, route>>)
      /\ request' = [body |-> [type |-> "propose_as_index_page", route |-> route,
                               priority |-> priority],
                     sender |-> "none"]
      /\ response' = NoResponse
      /\ raised' = "none"
      /\ calls' = <<>>
      /\ behaviour' = EmptyMap
      /\ UNCHANGED <<serverVars, queryVars, modelVars, simVars>>

NextIndex == propose_as_index_page

SpecIndex == InitModels /\ [][NextIndex]_vars

\* C23: index_url is None exactly when no route was proposed, and else it is
\* the URL of a proposed route whose priority is the highest of the
\* priorities proposed so far.
C23_BestIndexPage ==
    LET pages == proposed_index_pages
        url == index_url(pages)
    IN /\ url = NoValue <=> pages = <<>>
       /\ pages # <<>> =>
             \E i \in DOMAIN pages :
                 /\ url = <<url_for(pages[i][2])>>
                 /\ \A j \in DOMAIN pages : pages[j][1] <= pages[i][1]

----------------------------------------------------------------------------
(* Properties of the answers to CMD-DEL                                    *)

\* C24: the message returned for a CMD-DEL request is a CMD-DEL message: its
\* body has the type CMD-DEL and it is a response to the request.
C24_AnswerIsCMD_DEL ==
    request.body.type = "CMD-DEL" =>
        /\ response.in_response_to = request.body
        /\ response.body.type = "CMD-DEL"

----------------------------------------------------------------------------
(* Subscriptions and their listing                                         *)

\* The roots a DEV-LISTSUB names: nodes of the tree, one of them below the
\* other, and the root node of a UAV that is not registered.
FilterRoots == {<<"v1">>, <<"v1", "b">>, <<"v2">>}

\* DEV-LISTSUB messages without and with a pathFilter.
ListingMessages ==
    {[type |-> "DEV-LISTSUB"]}
    \cup {[type |-> "DEV-LISTSUB", pathFilter |-> path_filter] :
             path_filter \in SeqsUpTo(FilterRoots, MaxIds)}

SubscribeToOne == handle_DEV_SUB({<<(<<"v1">>)>>, <<(<<"v1", "b", "c">>)>>})

ListSubscriptions == HandleMessage(ListingMessages)

NextListing == SubscribeToOne \/ ListSubscriptions

SpecListing == InitSubscriptions /\ [][NextListing]_vars

\* C25: the paths in the response to a DEV-LISTSUB are the paths the sender
\* is subscribed to that are at or under a root of the filter, all of them
\* and no others; without a filter they are all the paths the sender is
\* subscribed to.
C25_ListedSubscriptions ==
    (request.sender \in ClientIds /\ request.body.type = "DEV-LISTSUB") =>
        LET mine == DOMAIN subscriptions[request.sender]
            listed == Range(response.body.paths)
        IN /\ raised = "none"
           /\ IF "pathFilter" \in DOMAIN request.body
              THEN listed = {q \in mine : Covered(q, request.body.pathFilter)}
              ELSE listed = mine

\* The sender is subscribed to a node and to a channel below it, another
\* client to the node only; the listing under the device between them is
\* the channel.
C25_Witness ==
    /\ request.body.type = "DEV-LISTSUB"
    /\ "pathFilter" \in DOMAIN request.body
    /\ request.body.pathFilter = <<(<<"v1", "b">>)>>
    /\ DOMAIN subscriptions[request.sender] = {<<"v1">>, <<"v1", "b", "c">>}
    /\ \E c \in ClientIds \ {request.sender} : DOMAIN subscriptions[c] = {<<"v1">>}
    /\ Range(response.body.paths) = {<<"v1", "b", "c">>}

----------------------------------------------------------------------------
(* Properties of the driver calls of a dispatch                            *)

\* The ids of the request that the registry resolves to a UAV of driver d,
\* in the order of the request.
TargetsOf(d) ==
    LET Owned(id) == id \in DOMAIN uav_registry /\ uav_registry[id] = d
    IN SelectSeq(request.body.ids, Owned)

\* The capability of the drivers that serves a type of message.
Capability ==
    [t \in DispatchTypes |->
        IF t = "CMD-REQ" THEN "send_command"
        ELSE IF t = "UAV-LAND" THEN "send_landing_signal"
        ELSE "send_takeoff_signal"]

\* C27: in a dispatch no driver is called twice; a call is for the
\* capability that the table gives for the type of the message, has all the
\* resolved UAVs of the request that the driver owns and no other UAV, and
\* has the body of the message without its type and ids as parameters.
C27_OneCallPerDriver ==
    Dispatched =>
        \A i \in DOMAIN calls :
            /\ \A j \in DOMAIN calls : calls[j].driver = calls[i].driver => j = i
            /\ calls[i].method = Capability[request.body.type]
            /\ calls[i].uavs # <<>>
            /\ calls[i].uavs = TargetsOf(calls[i].driver)
            /\ \A u \in Range(calls[i].uavs) :
                  u \in DOMAIN uav_registry /\ uav_registry[u] = calls[i].driver
            /\ DOMAIN calls[i].parameters = DOMAIN request.body \ {"type", "ids"}
            /\ \A k \in DOMAIN calls[i].parameters :
                  calls[i].parameters[k] = request.body[k]

\* A CMD-REQ for two UAVs of one driver, given in one call with the command.
C27_Witness ==
    /\ request.body.type = "CMD-REQ"
    /\ Len(calls) = 1
    /\ Len(calls[1].uavs) = 2
    /\ calls[1].uavs[1] # calls[1].uavs[2]
    /\ calls[1].parameters = [command |-> "yo"]

\* C28: a dispatch leaves the UAV registry as it was, the registered UAVs
\* and the driver of each, whether the dispatch returns a response with
\* successes or failures or is left by a fault of a driver.
C28_RegistryIsNotChanged ==
    [][request'.body.type \in DispatchTypes =>
         /\ DOMAIN uav_registry' = DOMAIN uav_registry
         /\ \A u \in DOMAIN uav_registry : uav_registry'[u] = uav_registry[u]]_vars

\* A dispatch to a registered UAV and to an id that is not registered, left
\* by a fault of the driver, with the UAV still registered.
C28_Witness ==
    /\ Dispatched
    /\ raised = "ValueError"
    /\ \E id \in RequestedIds : id \in DOMAIN uav_registry
    /\ \E id \in RequestedIds : id \notin DOMAIN uav_registry

----------------------------------------------------------------------------
(* simulate_uav: the task that boots a virtual UAV again and again         *)

\* The most boots of a virtual UAV in a run.
MaxBoots == 3

\* What run_single_boot returns: "shutdown", or a reason to boot again.
ShutdownReasons == {"shutdown", "reset", "battery"}

\* with self.app.object_registry.use(uav): the UAV is in the registry from
\* the entry of the block to its exit, however the block is left.
use_enter(registry, uav_id) == registry \cup {uav_id}

use_exit(registry, uav_id) == registry \ {uav_id}

\* A loop that ends after the first boot, whatever the reason.
after_boot_once(task, shutdown_reason) ==
    [task EXCEPT !.shutdown_reason = shutdown_reason, !.pc = "done"]

\* if shutdown_reason == "shutdown": break / else: await sleep(0.2)
after_boot(task, shutdown_reason) ==
    [task EXCEPT !.shutdown_reason = shutdown_reason,
                 !.pc = IF shutdown_reason = "shutdown" THEN "done"
                        ELSE "sleeping"]

\* The nursery starts the task: the UAV enters the registry and boots.
StartTask(u) ==
    /\ tasks[u].pc = "new"
    /\ object_registry' = use_enter(object_registry, u)
    /\ tasks' = [tasks EXCEPT ![u].pc = "booting", ![u].boots = 1]
    /\ UNCHANGED <<serverVars, logVars, queryVars, indexVars, modelVars>>

\* run_single_boot returns: the task sleeps to boot again, or leaves the
\* loop and the with block and ends.  The last boot of a run is not one
\* that asks for another.
BootEnds(u) ==
    \E shutdown_reason \in ShutdownReasons :
      LET task == after_boot(tasks[u], shutdown_reason)
      IN /\ tasks[u].pc = "booting"
         /\ shutdown_reason # "shutdown" => tasks[u].boots < MaxBoots
         /\ tasks' = [tasks EXCEPT ![u] = task]
         /\ object_registry' = IF task.pc = "done"
                               THEN use_exit(object_registry, u)
                               ELSE object_registry
         /\ UNCHANGED <<serverVars, logVars, queryVars, indexVars, modelVars>>

\* run_single_boot raises, or the task is cancelled while the UAV runs: the
\* exception leaves the with block and ends the task.
BootRaises(u) ==
    /\ tasks[u].pc = "booting"
    /\ tasks' = [tasks EXCEPT ![u].pc = "failed"]
    /\ object_registry' = use_exit(object_registry, u)
    /\ UNCHANGED <<serverVars, logVars, queryVars, indexVars, modelVars>>

\* sleep(0.2) returns: the loop starts the next boot.
Wake(u) ==
    /\ tasks[u].pc = "sleeping"
    /\ tasks' = [tasks EXCEPT ![u].pc = "booting", ![u].boots = @ + 1]
    /\ UNCHANGED object_registry
    /\ UNCHANGED <<serverVars, logVars, queryVars, indexVars, modelVars>>

\* The task is cancelled in sleep(0.2): the exception leaves the with block
\* and ends the task.
SleepRaises(u) ==
    /\ tasks[u].pc = "sleeping"
    /\ tasks' = [tasks EXCEPT ![u].pc = "failed"]
    /\ object_registry' = use_exit(object_registry, u)
    /\ UNCHANGED <<serverVars, logVars, queryVars, indexVars, modelVars>>

\* worker: one simulate_uav task for every UAV of the extension
NextSimulation ==
    \E u \in VirtualUavIds :
        \/ StartTask(u)
        \/ BootEnds(u)
        \/ BootRaises(u)
        \/ Wake(u)
        \/ SleepRaises(u)

\* A sleep of 0.2 seconds ends, and the task is run again when it has.
SpecSimulation ==
    /\ InitModels
    /\ [][NextSimulation]_vars
    /\ \A u \in VirtualUavIds : WF_vars(Wake(u))

----------------------------------------------------------------------------
(* Properties of simulate_uav                                              *)

Running(task) == task.pc \in {"booting", "sleeping"}

Ended(task) == task.pc \in {"done", "failed"}

\* C30: a UAV is in the object registry exactly while its task runs, so not
\* after the task has ended, with or without an error; the task ends without
\* an error only after a boot that ended with "shutdown", and the task goes
\* on after a boot that ended with another reason; a task that has ended
\* never boots the UAV again; and a task that goes on after a boot boots the
\* UAV again, unless an error ends the task first.
C30_BootAfterBoot ==
    /\ [](\A u \in VirtualUavIds : u \in object_registry <=> Running(tasks[u]))
    /\ [](\A u \in VirtualUavIds :
            /\ tasks[u].pc = "done" => tasks[u].shutdown_reason = "shutdown"
            /\ tasks[u].pc = "sleeping" =>
                  tasks[u].shutdown_reason \in ShutdownReasons \ {"shutdown"})
    /\ [][\A u \in VirtualUavIds :
            /\ Ended(tasks[u]) => tasks'[u] = tasks[u]
            /\ (tasks[u].pc = "booting" /\ tasks'[u] # tasks[u]) =>
                  \/ tasks'[u].pc = "failed"
                  \/ /\ tasks'[u].shutdown_reason = "shutdown"
                     /\ tasks'[u].pc = "done"
                  \/ /\ tasks'[u].shutdown_reason # "shutdown"
                     /\ tasks'[u].pc = "sleeping"
            /\ (tasks[u].pc = "sleeping" /\ tasks'[u] # tasks[u]) =>
                  \/ tasks'[u].pc = "failed"
                  \/ /\ tasks'[u].pc = "booting"
                     /\ tasks'[u].boots = tasks[u].boots + 1]_vars
    /\ \A u \in VirtualUavIds :
          (tasks[u].pc = "sleeping") ~> (tasks[u].pc \in {"booting", "failed"})

\* A UAV was booted, booted again after a reset and shut down: its task has
\* ended and it is not in the registry; the task of the other UAV failed.
C30_Witness ==
    /\ tasks["VIRT-0"].pc = "done"
    /\ tasks["VIRT-0"].boots = 2
    /\ "VIRT-0" \notin object_registry
    /\ tasks["VIRT-1"].pc = "failed"
    /\ "VIRT-1" \notin object_registry

----------------------------------------------------------------------------
(* Commands that end before the dispatcher has handed out their receipt    *)

\* A command for a UAV whose driver finishes it before send_command returns.
SendPromptCommand ==
    handle_UAV_operations({"CMD-REQ"}, {<<"v1">>}, {"prompt results"})

NextOutcomes ==
    \/ SendCommand
    \/ SendPromptCommand
    \/ Finish
    \/ Sweep
    \/ CancelCommands

\* The sweep is scheduled at a fixed interval: it runs again and again.
SpecOutcomes == InitCommands /\ [][NextOutcomes]_vars /\ WF_vars(Sweep)

\* The CMD-RESP and CMD-TIMEOUT notifications for receipt r sent to client c.
NotificationsOf(r, c) ==
    {m \in Messages :
        /\ m.to = c
        /\ \/ m.type = "CMD-RESP" /\ m.id = r
           \/ m.type = "CMD-TIMEOUT" /\ r \in Range(m.ids)}

\* C31: a receipt that the dispatcher handed to a sender (the sender is the
\* client the dispatcher added to its clients to notify) and that is
\* finished or timed out, the states that end a receipt that was not
\* cancelled, has led to one CMD-RESP or CMD-TIMEOUT notification to that
\* sender, sent once; this also when the driver finished the command before
\* the dispatcher added the sender.
C31_HandedReceiptIsAnswered ==
    \A r \in DOMAIN status : \A c \in status[r].clients_to_notify :
        status[r].state \in {"finished", "timed_out"} =>
            /\ Cardinality(NotificationsOf(r, c)) = 1
            /\ \A m \in NotificationsOf(r, c) : CopiesIn(m, sent) = 1

----------------------------------------------------------------------------
(* Handlers that are suspended while they send their notifications         *)

\* finish up to the outbound sends of the handler of the "finished" signal:
\* the receipt is finished, its CMD-RESP notifications are produced, and the
\* entry is still with the manager while the handler is suspended.
FinishAndSuspend ==
    \E receipt_id \in DOMAIN status :
      LET done == manager_finish(Manager, receipt_id)
          messages == IF done.emitted
                      THEN on_command_execution_finished(
                               receipt_id, done.mgr.status[receipt_id])
                      ELSE EmptyBag
      IN /\ status' = done.mgr.status
         /\ outbox' = messages
         /\ sent' = sent (+) messages
         /\ request' = Event("finish", receipt_id)
         /\ response' = NoResponse
         /\ raised' = "none"
         /\ calls' = <<>>
         /\ behaviour' = EmptyMap
         /\ UNCHANGED <<uav_registry, registered, next_receipt, batch>>
         /\ UNCHANGED <<subVars, rateVars>>
         /\ UNCHANGED extVars

\* The sweep up to the outbound sends of the handler of the "expired"
\* signal: the receipts S are timed out, their CMD-TIMEOUT notifications are
\* produced, and the entries are still with the manager.
SweepAndSuspend ==
    \E S \in SUBSET {r \in registered : status[r].state = "pending"} :
      LET expired == manager_expire(Manager, S)
          statuses == InOrderOfCreation(S, next_receipt - 1)
          messages == on_command_execution_timeout(statuses, expired.status)
      IN /\ S # {}
         /\ status' = expired.status
         /\ batch' = statuses
         /\ outbox' = messages
         /\ sent' = sent (+) messages
         /\ request' = [body |-> [type |-> "sweep", ids |-> statuses],
                        sender |-> "none"]
         /\ response' = NoResponse
         /\ raised' = "none"
         /\ calls' = <<>>
         /\ behaviour' = EmptyMap
         /\ UNCHANGED <<uav_registry, registered, next_receipt>>
         /\ UNCHANGED <<subVars, rateVars>>
         /\ UNCHANGED extVars

\* The suspended handler goes on after its sends: the entry of a receipt
\* whose notification was produced is purged.
ResumeAndPurge ==
    \E receipt_id \in registered :
      LET purged == manager_purge(Manager, {receipt_id})
      IN /\ status[receipt_id].state \in {"finished", "timed_out"}
         /\ registered' = purged.registered
         /\ request' = Event("purge", receipt_id)
         /\ response' = NoResponse
         /\ raised' = "none"
         /\ calls' = <<>>
         /\ behaviour' = EmptyMap
         /\ outbox' = EmptyBag
         /\ UNCHANGED <<uav_registry, status, next_receipt, sent, batch>>
         /\ UNCHANGED <<subVars, rateVars>>
         /\ UNCHANGED extVars

NextSuspension ==
    \/ SendCommand
    \/ FinishAndSuspend
    \/ SweepAndSuspend
    \/ ResumeAndPurge
    \/ CancelCommands

SpecSuspension == InitCommands /\ [][NextSuspension]_vars

\* C32: when the response to a CMD-DEL is returned, every receipt id in its
\* list of successes is the id of a receipt in the state cancelled; a
\* receipt that was finished or timed out and is still found is not among
\* the successes.
C32_SuccessMeansCancelled ==
    request.body.type = "CMD-DEL" =>
        \A r \in Range(request.body.ids) :
            BagIn(r, response.success) =>
                r \in DOMAIN status /\ status[r].state = "cancelled"

----------------------------------------------------------------------------
(* The queries and the state of the server                                 *)

\* One query or two of every type that has a query handler: about entries
\* that can be in the registries, the manager and the tree, and about
\* entries that never are.
FrameMessages ==
    {[type |-> "CLK-INF", ids |-> <<"system", "mtc">>],
     [type |-> "CONN-INF", ids |-> <<"radio", "wire">>],
     [type |-> "CMD-INF", ids |-> <<ReceiptId(1), ReceiptId(MaxReceipts + 1)>>],
     [type |-> "UAV-INF", ids |-> <<"v1", "v2">>],
     [type |-> "DEV-LIST", ids |-> <<"v1", "v2">>],
     [type |-> "DEV-INF", paths |-> <<(<<"v1", "b", "c">>), (<<"v2">>)>>],
     [type |-> "DEV-LISTSUB"],
     [type |-> "DEV-LISTSUB", pathFilter |-> <<(<<"v1">>)>>]}
    \cup PlainMessages

SubscribeToNode == handle_DEV_SUB({<<(<<"v1">>)>>})

AskServer == HandleMessage(FrameMessages)

NextFrame ==
    \/ StartCommand
    \/ RegisterClock({"system"})
    \/ RegisterConnection({"radio"})
    \/ SubscribeToNode
    \/ AskServer

SpecFrame == InitCommands /\ [][NextFrame]_vars

\* C33: a step in which the handler of CLK-INF, CLK-LIST, CONN-INF, CONN-LIST,
\* CMD-INF, DEV-INF, DEV-LIST, DEV-LISTSUB, UAV-INF, UAV-LIST, SYS-PING or
\* SYS-VER answers a client leaves the registries, the receipts and their
\* states, the device tree and the subscription counts of every client as
\* they were.
C33_QueriesChangeNothing ==
    [][(request'.sender \in ClientIds /\ request'.body.type \in QueryTypes) =>
           Server' = Server]_vars

\* A CMD-INF about a pending receipt was answered while a clock, a
\* connection and a UAV are registered and a client has a subscription.
C33_Witness ==
    /\ request.body.type = "CMD-INF"
    /\ ReceiptId(1) \in DOMAIN response.body.receipts
    /\ ReceiptId(1) \in registered /\ status[ReceiptId(1)].state = "pending"
    /\ clock_registry # {} /\ connection_registry # {}
    /\ \E c \in ClientIds : DOMAIN subscriptions[c] # {}

============================================================================
